---- MODULE Spec2Model ----
(***************************************************************************)
(* State-machine model of the CRIM analysis core:                          *)
(*   - the staged cache            (core/crim_cache_manager.py)            *)
(*   - the fuzzy-join reconciler   (core/utils/note_id_updater.py)         *)
(*   - the pairwise miners         (core/compare/piece_pair_value*.py)     *)
(*   - the inverted index builder  (core/compare/melodic_ngram_values.py)  *)
(* Each component has its own specification over the shared variables.     *)
(***************************************************************************)
EXTENDS Integers, Sequences, FiniteSets, TLC

(***************************************************************************)
(* Bounds of the model.                                                    *)
(***************************************************************************)
MaxCells == 1       \* distinct cell contents of a cached DataFrame
MaxMeta == 2        \* distinct metadata values of a put
MaxRows == 2        \* analysis rows in the reconciler's table
MaxOnset == 1       \* onsets, in ticks
MaxTol == 1         \* tolerances, in ticks
MaxPiece == 3       \* pieces in the pieces table
MaxOcc == 3         \* pattern occurrences in the miners' and the index builder's source
MaxValue == 2       \* distinct pattern values
MaxSeq == 4         \* cap of the AUTOINCREMENT counter of melodic_ngram_values
MaxLookupOnset == 3 \* onsets of the lookup's notes, in steps of 0.0005
MaxNotes == 4       \* notes in the notes table of the note pair generator
MaxRunOcc == 2      \* pattern occurrences when two populators are followed by statement

(***************************************************************************)
(* State.                                                                  *)
(***************************************************************************)
VARIABLES
  \* staged cache
  fs,          \* the cache directory tree: piece directory -> NoDir or its files
  index_file,  \* cache_index.json on disk: NoFile or the 'pieces' map
  index,       \* self.index['pieces'] of the running cache manager
  lastPut,     \* history: per key, the arguments of the most recent completed put
  loaded,      \* value returned by the most recent load_stage_cache call, with its key;
               \* NoLoad once the process restarts or the cache is written again
  checked,     \* value returned by the most recent has_stage_cache call, with its
               \* arguments; loaded and checked keep the latest call only
  put_call,    \* the save_stage_cache call in progress, when it is followed
               \* statement by statement: its arguments and what is left to write
  \* relational store: source tables
  pieces,              \* pieces table: piece_id -> [composer]
  melodic_ngram_sets,  \* melodic_ngram_sets table: set_id -> its parameters
  notes,               \* notes table: note_id -> [piece_id, voice, onset]
  melodic_ngrams,      \* melodic_ngrams table: row ngram_id is melodic_ngrams[ngram_id]
  \* fuzzy join reconciler
  last_run,    \* the most recent update_note_ids_batch_optimized call: its arguments,
               \* the strategy it took, the rows it updated and the value it returned
  recon_txn,   \* the open transaction of a _update_in_batches call in progress, when
               \* it is followed batch by batch: the rows as its connection sees them
  \* pairwise miners: committed content of the derived tables
  piece_pair_values,
  piece_pair_value_sources,
  miner_run,   \* the most recent miner entry-point call on the current source:
               \* the pairs it generated, the records it computed, the value returned
  \* inverted index builder: committed content of the derived tables
  melodic_ngram_values,
  melodic_ngram_value_sets,
  sqlite_sequence,  \* AUTOINCREMENT counters of the two index tables
  index_run,   \* the most recent index builder call: the value it returned
  cleared,     \* the most recent clear_stage_set call: its arguments and the value
               \* it returned
  lookup,      \* the most recent find_note_id or find_note_ids_batch call: its
               \* arguments and the value it returned
  \* note pair generator
  note_pairs,  \* committed content of the note_pairs table
  pairs_run,   \* the most recent generate_note_pairs call: the value it returned
  \* several processes on one store or one cache directory
  procs        \* per process, when calls of two processes are followed statement by
               \* statement: its position and what its connection or object holds

cacheVars == <<fs, index_file, index, lastPut, loaded, checked, put_call>>
sourceVars == <<pieces, melodic_ngram_sets, notes, melodic_ngrams>>
reconVars == <<last_run, recon_txn>>
minerVars == <<piece_pair_values, piece_pair_value_sources, miner_run>>
indexVars == <<melodic_ngram_values, melodic_ngram_value_sets, sqlite_sequence, index_run>>
clearVars == <<cleared>>
lookupVars == <<lookup>>
pairVars == <<note_pairs, pairs_run>>
procVars == <<procs>>
vars == <<cacheVars, sourceVars, reconVars, minerVars, indexVars, clearVars, lookupVars, pairVars, procVars>>

(***************************************************************************)
(* Generic helpers.                                                        *)
(***************************************************************************)
\* dict.update(): g's entries override f's
Merge(f, g) ==
  [x \in (DOMAIN f) \cup (DOMAIN g) |-> IF x \in DOMAIN g THEN g[x] ELSE f[x]]

EmptyMap == [x \in {} |-> 0]

Abs(x) == IF x < 0 THEN -x ELSE x

Min(S) == CHOOSE x \in S : \A y \in S : x <= y

\* the elements of a set of integers in ascending order (ORDER BY, sorted())
RECURSIVE SortedSeq(_)
SortedSeq(S) == IF S = {} THEN <<>> ELSE <<Min(S)>> \o SortedSeq(S \ {Min(S)})

\* seq[i:i + n] of Python, for a 1-based start i
Slice(seq, i, n) == SubSeq(seq, i, IF i + n - 1 < Len(seq) THEN i + n - 1 ELSE Len(seq))

Range(seq) == {seq[i] : i \in DOMAIN seq}

\* seq without its element at position i
RemoveAt(seq, i) == SubSeq(seq, 1, i - 1) \o SubSeq(seq, i + 1, Len(seq))

\* a sequence of integers in ascending order, duplicates kept
RECURSIVE SortList(_)
SortList(seq) ==
  IF seq = <<>> THEN <<>>
  ELSE LET m == Min(Range(seq))
           i == Min({j \in DOMAIN seq : seq[j] = m})
       IN  <<m>> \o SortList(RemoveAt(seq, i))

\* dict.get(key, {})
GetOrEmpty(dict, key) == IF key \in DOMAIN dict THEN dict[key] ELSE EmptyMap

\* last_run, miner_run, index_run before the component has run; the AUTOINCREMENT
\* counters of a new store
NoRun == [ran |-> FALSE]

\* no batched run in progress; no save_stage_cache call in progress
NoTxn == [open |-> FALSE]

NoCall == [active |-> FALSE, crashed |-> FALSE]

NoCheck == [valid |-> FALSE]

NoMinerRun ==
  [ran |-> FALSE, miner |-> "none", returned |-> FALSE, reached |-> "start",
   piece_pairs |-> <<>>, shared_records |-> {}]

NoIndexRun == [ran |-> FALSE, returned |-> FALSE]

\* no lookup has been made
NoLookup == [valid |-> FALSE]

\* clear_stage_set has not been called
NoClear == [valid |-> FALSE]

\* generate_note_pairs has not been called
NoPairsRun == [ran |-> FALSE, returned |-> FALSE, generated |-> FALSE]

\* no process is followed statement by statement
NoProcs == <<>>

\* batch_size of insert_piece_pair_values
InsertBatchSize == 1000

NoSequence == [melodic_ngram_values |-> 0, melodic_ngram_value_sets |-> 0]

(***************************************************************************)
(* STAGED CACHE                                                            *)
(***************************************************************************)

Stages == {"notes"}
Formats == {"pkl", "csv"}
\* Strings that take part in f'set{set_id}' are sequences of tokens, so that the
\* prefixing is a concatenation.  The slug is one that starts with "set": the
\* directory has_stage_cache builds for the identifier "cT" is then one that
\* save_stage_cache writes, while the one it builds for the slug itself is not.
SetSlugs == {<<"set", "cT">>}
SetIds_of_has == {<<"cT">>, <<"set", "cT">>}
PieceKeys == {"p1"}
ArtifactNames == {"notes", "durations"}
IndexKinds == {"range", "custom"}

\* absent values, shaped like the present ones so that they compare
NoDir == [exists |-> FALSE, files |-> EmptyMap]
NoFile == [exists |-> FALSE, pieces |-> EmptyMap]
NoPut == [put |-> FALSE]
NoLoad == [valid |-> FALSE]
None == [present |-> FALSE]

\* a DataFrame: the kind of its row index and its cell contents
DataFrames == [index : IndexKinds, cells : 1..MaxCells]
Metadatas == 1..MaxMeta
CacheKeys == [stage : Stages, fmt : Formats, set_slug : SetSlugs, piece_key : PieceKeys]
\* data_dict arguments: artifact name -> DataFrame
DataDicts == UNION {[names -> DataFrames] : names \in SUBSET ArtifactNames}

\* os.path.join(cache_dir, file_format, stage, set_slug, piece_key)
PieceDir(k) == <<k.fmt, k.stage, k.set_slug, k.piece_key>>
Dirs == {PieceDir(k) : k \in CacheKeys}

FileName(key, ext) == <<key, ext>>
MetadataFile == FileName("metadata", "json")

\* df.to_pickle keeps the frame whole; df.to_csv(index=False) writes the cells only
ToFile(fmt, df) ==
  IF fmt = "pkl" THEN [kind |-> "pkl", df |-> df]
  ELSE [kind |-> "csv", cells |-> df.cells]

\* pd.read_pickle / pd.read_csv: a frame read from csv gets a fresh RangeIndex
FromFile(file) ==
  IF file.kind = "pkl" THEN file.df
  ELSE [index |-> "range", cells |-> file.cells]

\* f"{stage}/set{set_id}/{piece_key}"
IndexKey(stage, set_id, piece_key) == <<stage, <<"set">> \o set_id, piece_key>>

\* the index created by _load_index when no index file can be read
FreshIndex == EmptyMap

_load_index == IF index_file.exists THEN index_file.pieces ELSE FreshIndex

\* the new value of self.index['pieces'] after _update_index
UpdatedIndex(idx, k, data_dict, metadata) ==
  LET index_key == IndexKey(k.stage, k.set_slug, k.piece_key)
      old == IF index_key \in DOMAIN idx
               THEN idx[index_key]
               ELSE [stage |-> k.stage, set_id |-> k.set_slug,
                     piece_key |-> k.piece_key, formats |-> EmptyMap]
      entry == [dataframes |-> DOMAIN data_dict, metadata |-> metadata]
      new == [old EXCEPT !.formats = Merge(old.formats, [f \in {k.fmt} |-> entry])]
  IN  Merge(idx, [x \in {index_key} |-> new])

\* the files of the piece directory after save_stage_cache has written into it
WrittenDir(dir, k, data_dict, metadata) ==
  LET before == dir.files                                      \* makedirs(exist_ok=True)
      frames == [n \in {FileName(key, k.fmt) : key \in DOMAIN data_dict} |->
                   ToFile(k.fmt, data_dict[n[1]])]
      meta == [n \in {MetadataFile} |-> [kind |-> "json", metadata |-> metadata]]
  IN  [exists |-> TRUE, files |-> Merge(Merge(before, frames), meta)]

\* the value load_stage_cache returns when its piece directory is piece_dir
LoadedFrom(piece_dir, file_format) ==
  LET dir == piece_dir.files
  IN  IF ~piece_dir.exists THEN None
      ELSE
        LET dataFiles == {n \in (DOMAIN dir) \ {MetadataFile} : n[2] = file_format}
            keys == {n[1] : n \in dataFiles}
                      \cup (IF MetadataFile \in DOMAIN dir THEN {"metadata"} ELSE {})
        IN  [present |-> TRUE,
             value |-> [key \in keys |->
               IF key = "metadata" /\ MetadataFile \in DOMAIN dir
                 THEN [metadata |-> dir[MetadataFile].metadata]
                 ELSE [frame |-> FromFile(dir[FileName(key, file_format)])]]]

\* load_stage_cache answering a missing directory with an empty dict
load_stage_cache_missing_as_empty(k) ==
  IF ~fs[PieceDir(k)].exists THEN [present |-> TRUE, value |-> EmptyMap]
  ELSE LoadedFrom(fs[PieceDir(k)], k.fmt)

\* the value load_stage_cache returns for key k in the current directory tree
load_stage_cache(k) == LoadedFrom(fs[PieceDir(k)], k.fmt)

\* os.path.exists on a piece directory; a path outside Dirs was never created
PathExists(path) == path \in DOMAIN fs /\ fs[path].exists

\* os.path.join(cache_dir, file_format, stage, f'set{set_id}', piece_key)
HasDir(stage, file_format, set_id, piece_key) ==
  <<file_format, stage, <<"set">> \o set_id, piece_key>>

\* has_stage_cache looking at the directory only
has_stage_cache_directory_only(stage, file_format, set_id, piece_key, required_files) ==
  PathExists(HasDir(stage, file_format, set_id, piece_key))

\* has_stage_cache(stage, file_format, set_id, piece_key, required_files);
\* required_files None or [] is the empty set
has_stage_cache(stage, file_format, set_id, piece_key, required_files) ==
  LET piece_dir == HasDir(stage, file_format, set_id, piece_key)
  IN  IF ~PathExists(piece_dir) THEN FALSE
      ELSE \A file_key \in required_files :
             FileName(file_key, file_format) \in DOMAIN fs[piece_dir].files

\* A new cache directory and a cache manager constructed on it; the store and
\* the other components are not in use.
CacheInit ==
  /\ fs = [d \in Dirs |-> NoDir]
  /\ index_file = NoFile
  /\ index = FreshIndex
  /\ lastPut = [k \in CacheKeys |-> NoPut]
  /\ loaded = NoLoad
  /\ checked = NoCheck
  /\ put_call = NoCall
  /\ pieces = EmptyMap
  /\ melodic_ngram_sets = EmptyMap
  /\ notes = EmptyMap
  /\ melodic_ngrams = <<>>
  /\ last_run = NoRun
  /\ recon_txn = NoTxn
  /\ piece_pair_values = {}
  /\ piece_pair_value_sources = {}
  /\ miner_run = NoMinerRun
  /\ melodic_ngram_values = {}
  /\ melodic_ngram_value_sets = {}
  /\ sqlite_sequence = NoSequence
  /\ index_run = NoIndexRun
  /\ procs = NoProcs
  /\ note_pairs = {}
  /\ pairs_run = NoPairsRun
  /\ cleared = NoClear
  /\ lookup = NoLookup

\* save_stage_cache(stage, file_format, set_slug, piece_key, data_dict, metadata)
Put(k, data_dict, metadata) ==
  /\ fs' = [fs EXCEPT ![PieceDir(k)] = WrittenDir(@, k, data_dict, metadata)]
  /\ index' = UpdatedIndex(index, k, data_dict, metadata)
  /\ index_file' = [exists |-> TRUE, pieces |-> index']          \* _save_index
  /\ lastPut' = [lastPut EXCEPT ![k] =
                    [put |-> TRUE, data_dict |-> data_dict, metadata |-> metadata]]
  /\ loaded' = NoLoad
  /\ checked' = NoCheck
  /\ UNCHANGED <<put_call, sourceVars, reconVars, minerVars, indexVars, clearVars, lookupVars, clearVars, lookupVars, pairVars, procVars>>

\* load_stage_cache(stage, file_format, set_slug, piece_key)
Get(k) ==
  /\ loaded' = [valid |-> TRUE, key |-> k, result |-> load_stage_cache(k)]
  /\ checked' = NoCheck
  /\ UNCHANGED <<fs, index_file, index, lastPut, put_call>>
  /\ UNCHANGED <<sourceVars, reconVars, minerVars, indexVars, clearVars, lookupVars, pairVars, procVars>>

\* has_stage_cache(stage, file_format, set_id, piece_key, required_files)
Has(stage, file_format, set_id, piece_key, required_files) ==
  /\ checked' = [valid |-> TRUE, stage |-> stage, fmt |-> file_format, set_id |-> set_id,
                 piece_key |-> piece_key, required_files |-> required_files,
                 result |-> has_stage_cache(stage, file_format, set_id, piece_key,
                                            required_files)]
  /\ loaded' = NoLoad
  /\ UNCHANGED <<fs, index_file, index, lastPut, put_call>>
  /\ UNCHANGED <<sourceVars, reconVars, minerVars, indexVars, clearVars, lookupVars, pairVars, procVars>>

\* the process ends and a new CrimCacheManager is constructed on the same tree
Restart ==
  /\ index' = _load_index
  /\ loaded' = NoLoad
  /\ checked' = NoCheck
  /\ UNCHANGED <<fs, index_file, lastPut, put_call>>
  /\ UNCHANGED <<sourceVars, reconVars, minerVars, indexVars, clearVars, lookupVars, pairVars, procVars>>

\* save_stage_cache followed statement by statement.  Every file is written in
\* place, straight into the piece directory; there is no temporary file and no
\* rename.  put_call.before is the piece directory as the call found it.
BeginPut(k, data_dict, metadata) ==
  /\ ~put_call.active
  /\ fs' = [fs EXCEPT ![PieceDir(k)].exists = TRUE]            \* os.makedirs
  /\ put_call' = [active |-> TRUE, crashed |-> FALSE, k |-> k, data_dict |-> data_dict,
                  metadata |-> metadata, todo |-> DOMAIN data_dict,
                  before |-> fs[PieceDir(k)]]
  /\ loaded' = NoLoad
  /\ checked' = NoCheck
  /\ UNCHANGED <<index_file, index, lastPut>>
  /\ UNCHANGED <<sourceVars, reconVars, minerVars, indexVars, clearVars, lookupVars, pairVars, procVars>>

\* one pass of "for key, df in data_dict.items()": the order is the caller's
WriteFrame ==
  /\ put_call.active
  /\ \E key \in put_call.todo :
       LET k == put_call.k
           file == [n \in {FileName(key, k.fmt)} |-> ToFile(k.fmt, put_call.data_dict[key])]
       IN  /\ fs' = [fs EXCEPT ![PieceDir(k)].files = Merge(@, file)]
           /\ put_call' = [put_call EXCEPT !.todo = @ \ {key}]
  /\ UNCHANGED <<index_file, index, lastPut, loaded, checked>>
  /\ UNCHANGED <<sourceVars, reconVars, minerVars, indexVars, clearVars, lookupVars, pairVars, procVars>>

\* the loop is over: metadata.json, then _update_index with its _save_index
FinishPut ==
  /\ put_call.active
  /\ put_call.todo = {}
  /\ LET k == put_call.k
         meta == [n \in {MetadataFile} |-> [kind |-> "json", metadata |-> put_call.metadata]]
     IN  /\ fs' = [fs EXCEPT ![PieceDir(k)].files = Merge(@, meta)]
         /\ index' = UpdatedIndex(index, k, put_call.data_dict, put_call.metadata)
         /\ index_file' = [exists |-> TRUE, pieces |-> index']
         /\ lastPut' = [lastPut EXCEPT ![k] = [put |-> TRUE, data_dict |-> put_call.data_dict,
                                               metadata |-> put_call.metadata]]
  /\ put_call' = NoCall
  /\ UNCHANGED <<loaded, checked>>
  /\ UNCHANGED <<sourceVars, reconVars, minerVars, indexVars, clearVars, lookupVars, pairVars, procVars>>

\* the process dies inside save_stage_cache, after makedirs and before
\* metadata.json is written; a new CrimCacheManager is constructed on the tree
\* as the call left it.  put_call keeps the arguments of the interrupted call.
CrashPut ==
  /\ put_call.active
  /\ put_call' = [put_call EXCEPT !.active = FALSE, !.crashed = TRUE]
  /\ index' = _load_index
  /\ UNCHANGED <<fs, index_file, lastPut, loaded, checked>>
  /\ UNCHANGED <<sourceVars, reconVars, minerVars, indexVars, clearVars, lookupVars, pairVars, procVars>>

CacheNext ==
  \/ \E k \in CacheKeys, d \in DataDicts, m \in Metadatas : Put(k, d, m)
  \/ \E k \in CacheKeys : Get(k)
  \/ \E stage \in Stages, file_format \in Formats, set_id \in SetIds_of_has,
        piece_key \in PieceKeys, required_files \in SUBSET ArtifactNames :
          Has(stage, file_format, set_id, piece_key, required_files)
  \/ Restart

\* puts followed statement by statement, with process crashes; reads run
\* between the calls.  The calls are those of the pickle format.
PickleKeys == {k \in CacheKeys : k.fmt = "pkl"}

CacheCrashNext ==
  \/ \E k \in PickleKeys, d \in DataDicts, m \in Metadatas : BeginPut(k, d, m)
  \/ WriteFrame
  \/ FinishPut
  \/ CrashPut
  \/ \E k \in PickleKeys : ~put_call.active /\ Get(k)
  \/ \E stage \in Stages, set_id \in SetIds_of_has, piece_key \in PieceKeys,
        required_files \in SUBSET ArtifactNames :
          ~put_call.active /\ Has(stage, "pkl", set_id, piece_key, required_files)


(***************************************************************************)
(* RELATIONAL STORE: the tables shared by reconciler, miners and index     *)
(* builder.                                                                *)
(***************************************************************************)
\* SQL NULL in the nullable note_id column
NULL == 0

NoteIds == {10, 11}
Voices == {1, 2}
Onsets == 0..MaxOnset

(***************************************************************************)
(* FUZZY JOIN RECONCILER                                                   *)
(***************************************************************************)

ReconPieces == {1, 2}
NoPiece == 0                         \* piece_id=None: no piece scope
DefaultBatchSize == 5000
BatchSizes == {1, DefaultBatchSize}
Tolerances == 0..MaxTol

\* the join condition without its voice comparison
JoinOn_any_voice(n, t, tolerance) ==
  /\ notes[n].piece_id = t.piece_id
  /\ Abs(notes[n].onset - t.onset) <= tolerance

\* n.piece_id = t.piece_id AND n.voice = t.voice AND ABS(n.onset - t.onset) <= ?
JoinOn(n, t, tolerance) ==
  /\ notes[n].piece_id = t.piece_id
  /\ notes[n].voice = t.voice
  /\ Abs(notes[n].onset - t.onset) <= tolerance

\* the row selection without its note_id IS NULL condition
Unmatched_or_matched(rows, piece_id) ==
  {i \in DOMAIN rows : piece_id = NoPiece \/ rows[i].piece_id = piece_id}

\* WHERE note_id IS NULL [AND piece_id = ?] over the rows of the table
Unmatched(rows, piece_id) ==
  {i \in DOMAIN rows : rows[i].note_id = NULL /\ (piece_id = NoPiece \/ rows[i].piece_id = piece_id)}

\* CREATE TEMP TABLE ... AS SELECT t.pk, n.note_id FROM t LEFT JOIN notes n ON ...
\* restricted to the target rows: one mapping row per joined note, or one with
\* a NULL match for a row that joins no note
temp_note_mapping(rows, targets, tolerance) ==
  LET joined(i) == {m \in DOMAIN notes : JoinOn(m, rows[i], tolerance)}
  IN  UNION {IF joined(i) = {}
               THEN {[target_id |-> i, matched_note_id |-> NULL]}
               ELSE {[target_id |-> i, matched_note_id |-> n] : n \in joined(i)}
             : i \in targets}

\* the IN list cut down to its lowest target id
Updatable_lowest_only(mapping) ==
  LET all == {m.target_id : m \in {x \in mapping : x.matched_note_id # NULL}}
  IN  IF all = {} THEN {} ELSE {Min(all)}

\* WHERE pk IN (SELECT target_id FROM mapping WHERE matched_note_id IS NOT NULL)
Updatable(mapping) == {m.target_id : m \in {x \in mapping : x.matched_note_id # NULL}}

\* The scalar subquery (SELECT matched_note_id FROM mapping WHERE target_id = pk)
\* has no ORDER BY: it yields the first mapping row of the target in whatever
\* order the engine stored the join, so any joined note of the row can come out.
\* A pick fixes one such outcome for every row.
Picks(rows, tolerance) ==
  [DOMAIN rows -> (DOMAIN notes) \cup {NULL}]

PickAllowed(pick, mapping) ==
  \A i \in Updatable(mapping) :
     [target_id |-> i, matched_note_id |-> pick[i]] \in mapping

\* the UPDATE without its WHERE clause: the subquery yields NULL for every row
\* that is not a target with a match
ApplyMapping_without_where(rows, mapping, pick) ==
  [i \in DOMAIN rows |->
     [rows[i] EXCEPT !.note_id = IF i \in Updatable(mapping) THEN pick[i] ELSE NULL]]

\* UPDATE table SET note_id = (subquery) WHERE pk IN (...)
ApplyMapping(rows, mapping, pick) ==
  [i \in DOMAIN rows |->
     IF i \in Updatable(mapping) THEN [rows[i] EXCEPT !.note_id = pick[i]] ELSE rows[i]]

\* _update_all_at_once: one mapping over every unmatched row in scope, one UPDATE
_update_all_at_once(rows, piece_id, tolerance, pick) ==
  LET mapping == temp_note_mapping(rows, Unmatched(rows, piece_id), tolerance)
  IN  [rows |-> ApplyMapping(rows, mapping, pick), updated |-> Updatable(mapping)]

\* _update_in_batches: the loop over all_ids[i:i + batch_size], from position i on
RECURSIVE BatchLoop(_, _, _, _, _, _, _)
BatchLoop(rows, updated, all_ids, i, batch_size, tolerance, pick) ==
  IF i > Len(all_ids) THEN [rows |-> rows, updated |-> updated]
  ELSE
    LET batch_ids == Range(Slice(all_ids, i, batch_size))
        mapping == temp_note_mapping(rows, batch_ids, tolerance)
    IN  BatchLoop(ApplyMapping(rows, mapping, pick), updated \cup Updatable(mapping),
                  all_ids, i + batch_size, batch_size, tolerance, pick)

_update_in_batches(rows, piece_id, tolerance, batch_size, pick) ==
  LET all_ids == SortedSeq(Unmatched(rows, piece_id))
  IN  BatchLoop(rows, {}, all_ids, 1, batch_size, tolerance, pick)

\* update_note_ids_batch_optimized(table, piece_id, tolerance, batch_size), by the
\* branch it takes on total_count: nothing to update, all at once, or in batches
TotalCount(piece_id) == Cardinality(Unmatched(melodic_ngrams, piece_id))

\* history: the call repeats the piece scope and the tolerance of the call before it
SameArguments(piece_id, tolerance) ==
  last_run.ran /\ last_run.piece_id = piece_id /\ last_run.tolerance = tolerance

\* the "Warning: N records still have NULL note_id" block with its examples
NoReport == [printed |-> FALSE, remaining |-> 0, examples |-> {}]

ExampleLimit == 3                    \* LIMIT 3 of the example query

\* what _update_all_at_once prints about the rows left unmatched in its scope,
\* with the examples the LIMIT query returned
ResidualReports(rows, piece_id) ==
  LET left == Unmatched(rows, piece_id)
      remaining == Cardinality(left)
  IN  IF remaining > 0
        THEN {[printed |-> TRUE, remaining |-> remaining, examples |-> e] :
                e \in {x \in SUBSET left :
                         Cardinality(x) = Min({remaining, ExampleLimit})}}
        ELSE {NoReport}

RunNothingToUpdate(piece_id, tolerance, batch_size) ==
  /\ TotalCount(piece_id) = 0
  /\ last_run' = [ran |-> TRUE, strategy |-> "none", piece_id |-> piece_id,
                  tolerance |-> tolerance, updated |-> {}, returned |-> 0,
                  report |-> NoReport, crashed |-> FALSE,
                  rerun |-> SameArguments(piece_id, tolerance)]
  /\ UNCHANGED <<recon_txn, sourceVars, cacheVars, minerVars, indexVars, clearVars, lookupVars, pairVars, procVars>>

RunStrategy(piece_id, tolerance, batch_size, batched) ==
  \E pick \in Picks(melodic_ngrams, tolerance) :
    LET mappingAll == temp_note_mapping(melodic_ngrams,
                         Unmatched(melodic_ngrams, piece_id), tolerance)
        out == IF batched
                 THEN _update_in_batches(melodic_ngrams, piece_id, tolerance, batch_size, pick)
                 ELSE _update_all_at_once(melodic_ngrams, piece_id, tolerance, pick)
    IN  /\ PickAllowed(pick, mappingAll)
        /\ \A i \in (DOMAIN melodic_ngrams) \ Updatable(mappingAll) : pick[i] = NULL
        /\ melodic_ngrams' = out.rows
        /\ \E report \in (IF batched THEN {NoReport}
                            ELSE ResidualReports(out.rows, piece_id)) :
             last_run' = [ran |-> TRUE, strategy |-> IF batched THEN "batches" ELSE "all",
                          piece_id |-> piece_id, tolerance |-> tolerance,
                          updated |-> out.updated, returned |-> Cardinality(out.updated),
                          report |-> report, crashed |-> FALSE,
                          rerun |-> SameArguments(piece_id, tolerance)]
        /\ UNCHANGED <<recon_txn, pieces, melodic_ngram_sets, notes,
                       cacheVars, minerVars, indexVars, clearVars, lookupVars, pairVars, procVars>>

RunAllAtOnce(piece_id, tolerance, batch_size) ==
  /\ TotalCount(piece_id) > 0
  /\ ~(TotalCount(piece_id) > batch_size)
  /\ RunStrategy(piece_id, tolerance, batch_size, FALSE)

RunInBatches(piece_id, tolerance, batch_size) ==
  /\ TotalCount(piece_id) > batch_size
  /\ RunStrategy(piece_id, tolerance, batch_size, TRUE)

\* _update_in_batches followed batch by batch.  The first UPDATE opens the
\* transaction of the connection and the only commit is the one after the loop:
\* until then the table as other connections and later runs see it
\* (melodic_ngrams) is untouched and the updates live in the transaction.
BeginBatches(piece_id, tolerance, batch_size) ==
  /\ ~recon_txn.open
  /\ TotalCount(piece_id) > batch_size
  /\ recon_txn' = [open |-> TRUE, piece_id |-> piece_id, tolerance |-> tolerance,
                   batch_size |-> batch_size,
                   all_ids |-> SortedSeq(Unmatched(melodic_ngrams, piece_id)),
                   i |-> 1, rows |-> melodic_ngrams, updated |-> {},
                   rerun |-> SameArguments(piece_id, tolerance)]
  /\ UNCHANGED <<last_run, sourceVars, cacheVars, minerVars, indexVars, clearVars, lookupVars, pairVars, procVars>>

\* one pass of the loop body: the batch's mapping and its UPDATE
BatchStep ==
  /\ recon_txn.open
  /\ recon_txn.i <= Len(recon_txn.all_ids)
  /\ \E pick \in Picks(recon_txn.rows, recon_txn.tolerance) :
       LET batch_ids == Range(Slice(recon_txn.all_ids, recon_txn.i, recon_txn.batch_size))
           mapping == temp_note_mapping(recon_txn.rows, batch_ids, recon_txn.tolerance)
       IN  /\ PickAllowed(pick, mapping)
           /\ \A j \in (DOMAIN recon_txn.rows) \ Updatable(mapping) : pick[j] = NULL
           /\ recon_txn' = [recon_txn EXCEPT
                              !.rows = ApplyMapping(@, mapping, pick),
                              !.updated = @ \cup Updatable(mapping),
                              !.i = @ + recon_txn.batch_size]
  /\ UNCHANGED <<last_run, sourceVars, cacheVars, minerVars, indexVars, clearVars, lookupVars, pairVars, procVars>>

\* the loop is over: cursor.connection.commit(), close, return total_updated
CommitBatches ==
  /\ recon_txn.open
  /\ recon_txn.i > Len(recon_txn.all_ids)
  /\ melodic_ngrams' = recon_txn.rows
  /\ last_run' = [ran |-> TRUE, strategy |-> "batches", piece_id |-> recon_txn.piece_id,
                  tolerance |-> recon_txn.tolerance, updated |-> recon_txn.updated,
                  returned |-> Cardinality(recon_txn.updated),
                  report |-> NoReport, crashed |-> FALSE, rerun |-> recon_txn.rerun]
  /\ recon_txn' = NoTxn
  /\ UNCHANGED <<pieces, melodic_ngram_sets, notes, cacheVars, minerVars, indexVars, clearVars, lookupVars, pairVars, procVars>>

\* the process dies inside the loop, after at least one and before the last
\* batch: the connection goes away without a commit and SQLite rolls its
\* transaction back.  last_run.updated keeps the rows the completed batches
\* had resolved.
CrashInBatches ==
  /\ recon_txn.open
  /\ recon_txn.i > 1
  /\ recon_txn.i <= Len(recon_txn.all_ids)
  /\ last_run' = [ran |-> TRUE, strategy |-> "batches", piece_id |-> recon_txn.piece_id,
                  tolerance |-> recon_txn.tolerance, updated |-> recon_txn.updated,
                  returned |-> 0, report |-> NoReport, crashed |-> TRUE,
                  rerun |-> recon_txn.rerun]
  /\ recon_txn' = NoTxn
  /\ UNCHANGED <<sourceVars, cacheVars, minerVars, indexVars, clearVars, lookupVars, pairVars, procVars>>

NgramRow(p, s, v, o, g, n) ==
  [piece_id |-> p, melodic_ngram_set_id |-> s, voice |-> v, onset |-> o,
   ngram |-> g, note_id |-> n]

ReconInit ==
  /\ pieces = [p \in ReconPieces |-> [composer |-> "A"]]
  /\ melodic_ngram_sets = EmptyMap
  /\ notes \in [NoteIds -> [piece_id : ReconPieces, voice : Voices, onset : Onsets]]
  /\ \E n \in 1..MaxRows :
       melodic_ngrams \in [1..n -> {NgramRow(p, 1, v, o, 1, NULL) :
                                      p \in ReconPieces, v \in Voices, o \in Onsets}]
  /\ last_run = NoRun
  /\ recon_txn = NoTxn
  /\ fs = [d \in Dirs |-> NoDir]
  /\ index_file = NoFile
  /\ index = FreshIndex
  /\ lastPut = [k \in CacheKeys |-> NoPut]
  /\ loaded = NoLoad
  /\ checked = NoCheck
  /\ put_call = NoCall
  /\ piece_pair_values = {}
  /\ piece_pair_value_sources = {}
  /\ miner_run = NoMinerRun
  /\ melodic_ngram_values = {}
  /\ melodic_ngram_value_sets = {}
  /\ sqlite_sequence = NoSequence
  /\ index_run = NoIndexRun
  /\ procs = NoProcs
  /\ note_pairs = {}
  /\ pairs_run = NoPairsRun
  /\ cleared = NoClear
  /\ lookup = NoLookup

ReconNext ==
  \E piece_id \in ReconPieces \cup {NoPiece}, tolerance \in Tolerances,
     batch_size \in BatchSizes :
       \/ RunNothingToUpdate(piece_id, tolerance, batch_size)
       \/ RunAllAtOnce(piece_id, tolerance, batch_size)
       \/ RunInBatches(piece_id, tolerance, batch_size)

\* runs of the batched strategy followed batch by batch, with process crashes
ReconCrashNext ==
  \/ \E piece_id \in ReconPieces \cup {NoPiece}, tolerance \in Tolerances,
        batch_size \in BatchSizes : BeginBatches(piece_id, tolerance, batch_size)
  \/ BatchStep
  \/ CommitBatches
  \/ CrashInBatches


(***************************************************************************)
(* PAIRWISE MINERS                                                         *)
(***************************************************************************)
PieceIds == 1..MaxPiece
SetIds == {1, 2}
NgramValues == 1..MaxValue
MinerNoteIds == {NULL, 10}

\* the note_id column of the rows with the given ids, in table order
NoteIdList(rows, ids) ==
  LET order == SortedSeq(ids) IN [k \in DOMAIN order |-> rows[order[k]].note_id]

\* sorted(list) of Python: comparing None with anything raises TypeError
SortRaises(list) == Len(list) >= 2 /\ NULL \in Range(list)

\* sorted(list(set(list)))
UniqueSorted(list) == SortedSeq(Range(list))
UniqueSortRaises(list) == Cardinality(Range(list)) >= 2 /\ NULL \in Range(list)

\* get_piece_ngram_values reading the occurrences of Configuration 1 only
get_piece_ngram_values_of_set_1(rows) ==
  LET of_set_1 == {i \in DOMAIN rows : rows[i].melodic_ngram_set_id = 1} IN
  [p \in {rows[i].piece_id : i \in of_set_1} |->
     [v \in {rows[i].ngram : i \in {j \in of_set_1 : rows[j].piece_id = p}} |->
        NoteIdList(rows, {i \in of_set_1 : rows[i].piece_id = p /\ rows[i].ngram = v})]]

\* get_piece_ngram_values: {piece_id: {ngram_value: [note_ids]}}
get_piece_ngram_values(rows) ==
  [p \in {rows[i].piece_id : i \in DOMAIN rows} |->
     [v \in {rows[i].ngram : i \in {j \in DOMAIN rows : rows[j].piece_id = p}} |->
        NoteIdList(rows, {i \in DOMAIN rows : rows[i].piece_id = p /\ rows[i].ngram = v})]]

\* get_piece_set_ngram_values whose note lists ignore the Configuration
get_piece_set_ngram_values_any_set(rows) ==
  [key \in {<<rows[i].piece_id, rows[i].melodic_ngram_set_id>> : i \in DOMAIN rows} |->
     [v \in {rows[i].ngram : i \in {j \in DOMAIN rows :
                <<rows[j].piece_id, rows[j].melodic_ngram_set_id>> = key}} |->
        NoteIdList(rows, {i \in DOMAIN rows :
                /\ rows[i].piece_id = key[1]
                /\ rows[i].ngram = v})]]

\* get_piece_set_ngram_values: {(piece_id, set_id): {ngram_value: [note_ids]}}
get_piece_set_ngram_values(rows) ==
  [key \in {<<rows[i].piece_id, rows[i].melodic_ngram_set_id>> : i \in DOMAIN rows} |->
     [v \in {rows[i].ngram : i \in {j \in DOMAIN rows :
                <<rows[j].piece_id, rows[j].melodic_ngram_set_id>> = key}} |->
        NoteIdList(rows, {i \in DOMAIN rows :
                /\ <<rows[i].piece_id, rows[i].melodic_ngram_set_id>> = key
                /\ rows[i].ngram = v})]]

\* generate_piece_pairs: for i in range(len): for j in range(i, len): skip equal ids
RECURSIVE PairLoop(_, _, _)
PairLoop(piece_ids, i, j) ==
  IF i > Len(piece_ids) THEN <<>>
  ELSE IF j > Len(piece_ids) THEN PairLoop(piece_ids, i + 1, i + 1)
  ELSE (IF piece_ids[i] = piece_ids[j] THEN <<>> ELSE << <<piece_ids[i], piece_ids[j]>> >>)
         \o PairLoop(piece_ids, i, j + 1)

\* the double loop with the inner index starting at 0 instead of i
RECURSIVE PairLoopFromZero(_, _, _)
PairLoopFromZero(piece_ids, i, j) ==
  IF i > Len(piece_ids) THEN <<>>
  ELSE IF j > Len(piece_ids) THEN PairLoopFromZero(piece_ids, i + 1, 1)
  ELSE (IF piece_ids[i] = piece_ids[j] THEN <<>> ELSE << <<piece_ids[i], piece_ids[j]>> >>)
         \o PairLoopFromZero(piece_ids, i, j + 1)

generate_all_ordered_pairs(piece_ids) == PairLoopFromZero(piece_ids, 1, 1)

generate_piece_pairs(piece_ids) == PairLoop(piece_ids, 1, 1)

\* find_shared_values: one record per pair of the list and value shared by its two
\* pieces. at is the place of the record's pair in the list, so that a pair listed
\* twice yields its records twice.
find_shared_values(piece_ngrams, piece_pairs, pieces_info) ==
  LET shared_values(k) ==
        (DOMAIN GetOrEmpty(piece_ngrams, piece_pairs[k][1]))
          \cap (DOMAIN GetOrEmpty(piece_ngrams, piece_pairs[k][2]))
      record(k, v) ==
        LET piece_a_id == piece_pairs[k][1]
            piece_b_id == piece_pairs[k][2]
            notes_in_a == piece_ngrams[piece_a_id][v]
            notes_in_b == piece_ngrams[piece_b_id][v]
        IN  [at |-> <<k>>,
             raises |-> SortRaises(notes_in_a) \/ SortRaises(notes_in_b),
             rec |-> [piece_a_id |-> piece_a_id, piece_b_id |-> piece_b_id,
                      ngram_value |-> v,
                      notes_in_a |-> SortList(notes_in_a),
                      notes_in_b |-> SortList(notes_in_b),
                      count_in_a |-> Len(notes_in_a),
                      count_in_b |-> Len(notes_in_b),
                      total_shared_notes |-> Len(notes_in_a) + Len(notes_in_b),
                      composer_a |-> pieces_info[piece_a_id].composer,
                      composer_b |-> pieces_info[piece_b_id].composer,
                      same_composer |-> pieces_info[piece_a_id].composer
                                          = pieces_info[piece_b_id].composer]]
  IN  UNION {{record(k, v) : v \in shared_values(k)} : k \in DOMAIN piece_pairs}

\* same base parameters and different entry flags
same_base_other_entry(set_a_info, set_b_info) ==
  /\ set_a_info.melodic_interval_set_id = set_b_info.melodic_interval_set_id
  /\ set_a_info.ngrams_number = set_b_info.ngrams_number
  /\ set_a_info.ngrams_entry # set_b_info.ngrams_entry

\* determine_set_family_similarity
determine_set_family_similarity(set_a_info, set_b_info) ==
  /\ set_a_info.melodic_interval_set_id = set_b_info.melodic_interval_set_id
  /\ set_a_info.ngrams_number = set_b_info.ngrams_number

\* find_shared_values_by_sets comparing each Configuration with itself only
find_shared_values_by_same_set(piece_set_ngrams, piece_pairs, pieces_info, sets_info) ==
  LET set_ids == DOMAIN sets_info
      ngrams_a(k, sa) == GetOrEmpty(piece_set_ngrams, <<piece_pairs[k][1], sa>>)
      ngrams_b(k, sb) == GetOrEmpty(piece_set_ngrams, <<piece_pairs[k][2], sb>>)
      shared_values(k, sa) == (DOMAIN ngrams_a(k, sa)) \cap (DOMAIN ngrams_b(k, sa))
      record(k, sa, v) ==
        LET notes_in_a == ngrams_a(k, sa)[v]
            notes_in_b == ngrams_b(k, sa)[v]
        IN  [at |-> <<k, sa, sa>>,
             raises |-> UniqueSortRaises(notes_in_a) \/ UniqueSortRaises(notes_in_b),
             rec |-> [piece_a_id |-> piece_pairs[k][1], piece_b_id |-> piece_pairs[k][2],
                      ngram_value |-> v, set_a_id |-> sa, set_b_id |-> sa,
                      notes_in_a |-> UniqueSorted(notes_in_a),
                      notes_in_b |-> UniqueSorted(notes_in_b),
                      count_in_a |-> Len(notes_in_a), count_in_b |-> Len(notes_in_b),
                      pairs_count |-> Len(notes_in_a) * Len(notes_in_b),
                      same_set_family |-> TRUE,
                      composer_a |-> pieces_info[piece_pairs[k][1]].composer,
                      composer_b |-> pieces_info[piece_pairs[k][2]].composer,
                      same_composer |-> pieces_info[piece_pairs[k][1]].composer
                                          = pieces_info[piece_pairs[k][2]].composer]]
  IN  UNION {{record(k, sa, v) : v \in shared_values(k, sa)} :
               k \in DOMAIN piece_pairs, sa \in set_ids}

\* find_shared_values_by_sets: for every pair of the list and every ordered pair of
\* set ids of the sets table, one record per value shared by (piece a, set a) and
\* (piece b, set b)
find_shared_values_by_sets(piece_set_ngrams, piece_pairs, pieces_info, sets_info) ==
  LET set_ids == DOMAIN sets_info
      ngrams_a(k, sa) == GetOrEmpty(piece_set_ngrams, <<piece_pairs[k][1], sa>>)
      ngrams_b(k, sb) == GetOrEmpty(piece_set_ngrams, <<piece_pairs[k][2], sb>>)
      shared_values(k, sa, sb) == (DOMAIN ngrams_a(k, sa)) \cap (DOMAIN ngrams_b(k, sb))
      record(k, sa, sb, v) ==
        LET piece_a_id == piece_pairs[k][1]
            piece_b_id == piece_pairs[k][2]
            notes_in_a == ngrams_a(k, sa)[v]
            notes_in_b == ngrams_b(k, sb)[v]
            count_a == Len(notes_in_a)
            count_b == Len(notes_in_b)
        IN  [at |-> <<k, sa, sb>>,
             raises |-> UniqueSortRaises(notes_in_a) \/ UniqueSortRaises(notes_in_b),
             rec |-> [piece_a_id |-> piece_a_id, piece_b_id |-> piece_b_id,
                      ngram_value |-> v, set_a_id |-> sa, set_b_id |-> sb,
                      notes_in_a |-> UniqueSorted(notes_in_a),
                      notes_in_b |-> UniqueSorted(notes_in_b),
                      count_in_a |-> count_a, count_in_b |-> count_b,
                      pairs_count |-> count_a * count_b,
                      same_set_family |->
                        determine_set_family_similarity(sets_info[sa], sets_info[sb]),
                      composer_a |-> pieces_info[piece_a_id].composer,
                      composer_b |-> pieces_info[piece_b_id].composer,
                      same_composer |-> pieces_info[piece_a_id].composer
                                          = pieces_info[piece_b_id].composer]]
  IN  UNION {{record(k, sa, sb, v) : v \in shared_values(k, sa, sb)} :
               k \in DOMAIN piece_pairs, sa \in set_ids, sb \in set_ids}

\* reached: how far the call got: "start" (returned before generate_piece_pairs),
\* "pairs" (the pair list was generated), "records" (the shared records were computed)
MinerRun(miner, returned, reached, piece_pairs, shared_records) ==
  [ran |-> TRUE, miner |-> miner, returned |-> returned, reached |-> reached,
   piece_pairs |-> piece_pairs, shared_records |-> shared_records]

\* the rows an executemany of the records leaves in the table
Inserted(shared_records) == {e.rec : e \in shared_records}

\* sqlite3.IntegrityError of the collapsed table: UNIQUE (piece_a_id, piece_b_id,
\* ngram_value) or CHECK (piece_a_id <= piece_b_id)
ViolatesPairValues(shared_records) ==
  \/ \E e \in shared_records : e.rec.piece_a_id > e.rec.piece_b_id
  \/ \E e, f \in shared_records :
       /\ e.at # f.at
       /\ e.rec.piece_a_id = f.rec.piece_a_id
       /\ e.rec.piece_b_id = f.rec.piece_b_id
       /\ e.rec.ngram_value = f.rec.ngram_value

\* sqlite3.IntegrityError of the Configuration-aware table: UNIQUE (piece_a_id,
\* piece_b_id, ngram_value, set_a_id, set_b_id) or CHECK (piece_a_id <= piece_b_id)
ViolatesPairValueSources(shared_records) ==
  \/ \E e \in shared_records : e.rec.piece_a_id > e.rec.piece_b_id
  \/ \E e, f \in shared_records :
       /\ e.at # f.at
       /\ e.rec.piece_a_id = f.rec.piece_a_id
       /\ e.rec.piece_b_id = f.rec.piece_b_id
       /\ e.rec.ngram_value = f.rec.ngram_value
       /\ e.rec.set_a_id = f.rec.set_a_id
       /\ e.rec.set_b_id = f.rec.set_b_id

\* PiecePairValuesPopulator.populate_piece_pair_values, one call from connect_db to
\* close_db. Only insert_piece_pair_values commits, after its last batch; every
\* other way out leaves the table as committed before the call: the except branch
\* rolls back, and close_db discards a DELETE that was never committed.
populate_piece_pair_values ==
  LET pieces_info == pieces
      piece_ngrams == get_piece_ngram_values(melodic_ngrams)
      piece_ids == SortedSeq(DOMAIN pieces_info)
      piece_pairs == generate_piece_pairs(piece_ids)
      shared_records == find_shared_values(piece_ngrams, piece_pairs, pieces_info)
  IN  /\ IF pieces_info = EmptyMap \/ piece_ngrams = EmptyMap
         THEN \* "No pieces found" / "No ngram data found": return False
              /\ miner_run' = MinerRun("values", FALSE, "start", <<>>, {})
              /\ UNCHANGED piece_pair_values
         ELSE IF piece_pairs = <<>>
         THEN \* "Not enough pieces to create pairs": return False
              /\ miner_run' = MinerRun("values", FALSE, "pairs", piece_pairs, {})
              /\ UNCHANGED piece_pair_values
         ELSE IF \E e \in shared_records : e.raises
         THEN \* sorted() raises TypeError inside find_shared_values: rollback, False
              /\ miner_run' = MinerRun("values", FALSE, "pairs", piece_pairs, {})
              /\ UNCHANGED piece_pair_values
         ELSE IF shared_records = {}
         THEN \* DELETE, then "No shared records to insert": return 0 without commit;
              \* generate_statistics succeeds, True is returned, close_db rolls back
              /\ miner_run' = MinerRun("values", TRUE, "records", piece_pairs, shared_records)
              /\ UNCHANGED piece_pair_values
         ELSE IF ViolatesPairValues(shared_records)
         THEN \* executemany raises IntegrityError: rollback, False
              /\ miner_run' = MinerRun("values", FALSE, "records", piece_pairs, shared_records)
              /\ UNCHANGED piece_pair_values
         ELSE \* DELETE, INSERT in batches, commit
              /\ miner_run' = MinerRun("values", TRUE, "records", piece_pairs, shared_records)
              /\ piece_pair_values' = Inserted(shared_records)
      /\ UNCHANGED <<piece_pair_value_sources, sourceVars, cacheVars, reconVars, indexVars, clearVars, lookupVars, pairVars, procVars>>

\* get_sets_info: the SELECT names the ngrams_entry column
SetsInfoRaises(sets) == \E s \in DOMAIN sets : ~sets[s].entry_column

\* PiecePairValueSourcesPopulator.populate_piece_pair_value_sources, one call from
\* connect_db to close_db
populate_piece_pair_value_sources ==
  LET pieces_info == pieces
      sets_info == melodic_ngram_sets
      piece_set_ngrams == get_piece_set_ngram_values(melodic_ngrams)
      piece_ids == SortedSeq(DOMAIN pieces_info)
      piece_pairs == generate_piece_pairs(piece_ids)
      shared_records ==
        find_shared_values_by_sets(piece_set_ngrams, piece_pairs, pieces_info, sets_info)
  IN  /\ IF pieces_info = EmptyMap \/ SetsInfoRaises(sets_info) \/ sets_info = EmptyMap
              \/ piece_set_ngrams = EmptyMap
         THEN \* "No pieces found" / OperationalError / "No parameter sets found" /
              \* "No ngram data found": return False
              /\ miner_run' = MinerRun("sources", FALSE, "start", <<>>, {})
              /\ UNCHANGED piece_pair_value_sources
         ELSE IF piece_pairs = <<>>
         THEN /\ miner_run' = MinerRun("sources", FALSE, "pairs", piece_pairs, {})
              /\ UNCHANGED piece_pair_value_sources
         ELSE IF \E e \in shared_records : e.raises
         THEN \* sorted(list(set(...))) raises TypeError: rollback, False
              /\ miner_run' = MinerRun("sources", FALSE, "pairs", piece_pairs, {})
              /\ UNCHANGED piece_pair_value_sources
         ELSE IF shared_records = {}
         THEN \* DELETE, return 0 without commit; generate_statistics formats
              \* SUM(pairs_count) of the emptied table, None, with ',' : TypeError,
              \* rollback, False
              /\ miner_run' = MinerRun("sources", FALSE, "records", piece_pairs, shared_records)
              /\ UNCHANGED piece_pair_value_sources
         ELSE IF ViolatesPairValueSources(shared_records)
         THEN /\ miner_run' = MinerRun("sources", FALSE, "records", piece_pairs, shared_records)
              /\ UNCHANGED piece_pair_value_sources
         ELSE /\ miner_run' = MinerRun("sources", TRUE, "records", piece_pairs, shared_records)
              /\ piece_pair_value_sources' = Inserted(shared_records)
      /\ UNCHANGED <<piece_pair_values, sourceVars, cacheVars, reconVars, indexVars, clearVars, lookupVars, pairVars, procVars>>

\* The store's owner removes a piece's occurrences from melodic_ngrams (the table
\* is declared with ON DELETE CASCADE from pieces); the miners are not running.
RemovePieceNgrams(p) ==
  /\ \E i \in DOMAIN melodic_ngrams : melodic_ngrams[i].piece_id = p
  /\ melodic_ngrams' = SelectSeq(melodic_ngrams, LAMBDA r : r.piece_id # p)
  /\ miner_run' = NoMinerRun
  /\ UNCHANGED <<pieces, melodic_ngram_sets, notes, piece_pair_values,
                 piece_pair_value_sources, cacheVars, reconVars, indexVars, clearVars, lookupVars, pairVars, procVars>>

\* Source of the miners: three pieces, two Configurations, and up to MaxOcc
\* occurrences in the order one ingestion pass inserts them (Configurations in the
\* outer loop, pieces in the inner one). An occurrence's note reference is NULL or
\* a note of its piece.
MinerNote(p) == 10 + p

MinerRows ==
  UNION {{NgramRow(p, s, 1, 0, g, n) : s \in SetIds, g \in NgramValues,
                                        n \in {NULL, MinerNote(p)}} : p \in PieceIds}

IngestOrder(r, t) ==
  \/ r.melodic_ngram_set_id < t.melodic_ngram_set_id
  \/ r.melodic_ngram_set_id = t.melodic_ngram_set_id /\ r.piece_id <= t.piece_id

SetInfo(interval_set, n, has_entry, entry) ==
  [melodic_interval_set_id |-> interval_set, ngrams_number |-> n,
   entry_column |-> has_entry, ngrams_entry |-> entry]

\* melodic_ngram_sets as create_melodic_ngram_sets leaves it (no ngrams_entry
\* column, one row per interval set and length), and as get_sets_info reads it
\* (with the column): two Configurations of one family, or of two families
SetTables ==
  {[s \in SetIds |-> SetInfo(s, 3, FALSE, FALSE)],
   [s \in SetIds |-> SetInfo(1, 3, TRUE, s = 2)],
   [s \in SetIds |-> SetInfo(s, 3, TRUE, FALSE)]}

MinerInit ==
  /\ pieces = [p \in PieceIds |-> [composer |-> IF p = 1 THEN "A" ELSE "B"]]
  /\ melodic_ngram_sets \in SetTables
  /\ notes = [n \in {MinerNote(p) : p \in PieceIds} |->
                [piece_id |-> n - 10, voice |-> 1, onset |-> 0]]
  /\ \E n \in 1..MaxOcc :
       /\ melodic_ngrams \in [1..n -> MinerRows]
       /\ \A i, j \in 1..n : i < j => IngestOrder(melodic_ngrams[i], melodic_ngrams[j])
  /\ piece_pair_values = {}
  /\ piece_pair_value_sources = {}
  /\ miner_run = NoMinerRun
  /\ fs = [d \in Dirs |-> NoDir]
  /\ index_file = NoFile
  /\ index = FreshIndex
  /\ lastPut = [k \in CacheKeys |-> NoPut]
  /\ loaded = NoLoad
  /\ checked = NoCheck
  /\ put_call = NoCall
  /\ last_run = NoRun
  /\ recon_txn = NoTxn
  /\ melodic_ngram_values = {}
  /\ melodic_ngram_value_sets = {}
  /\ sqlite_sequence = NoSequence
  /\ index_run = NoIndexRun
  /\ procs = NoProcs
  /\ note_pairs = {}
  /\ pairs_run = NoPairsRun
  /\ cleared = NoClear
  /\ lookup = NoLookup

MinerNext ==
  \/ populate_piece_pair_values
  \/ populate_piece_pair_value_sources
  \/ \E p \in PieceIds : RemovePieceNgrams(p)

(***************************************************************************)
(* INVERTED INDEX BUILDER                                                  *)
(***************************************************************************)
\* lexicographic order of two tuples of integers of one length
RECURSIVE LexLess(_, _)
LexLess(a, b) ==
  /\ a # <<>>
  /\ \/ Head(a) < Head(b)
     \/ Head(a) = Head(b) /\ LexLess(Tail(a), Tail(b))

\* ORDER BY melodic_ngram_set_id, ngram, piece_id, voice, onset; rows equal in
\* all five come in ngram_id order
QueryKey(rows, i) ==
  <<rows[i].melodic_ngram_set_id, rows[i].ngram, rows[i].piece_id, rows[i].voice,
    rows[i].onset, i>>

RECURSIVE OrderBy(_, _)
OrderBy(rows, ids) ==
  IF ids = {} THEN <<>>
  ELSE LET first == CHOOSE i \in ids :
                      \A j \in ids \ {i} : LexLess(QueryKey(rows, i), QueryKey(rows, j))
       IN  <<first>> \o OrderBy(rows, ids \ {first})

\* get_melodic_ngram_data: melodic_ngrams JOIN pieces, in the ORDER BY order
get_melodic_ngram_data(rows, pieces_table) ==
  LET joined == OrderBy(rows, {i \in DOMAIN rows : rows[i].piece_id \in DOMAIN pieces_table})
  IN  [k \in DOMAIN joined |->
         [ngram_id |-> joined[k],
          piece_id |-> rows[joined[k]].piece_id,
          melodic_ngram_set_id |-> rows[joined[k]].melodic_ngram_set_id,
          note_id |-> rows[joined[k]].note_id,
          voice |-> rows[joined[k]].voice,
          ngram |-> rows[joined[k]].ngram,
          composer |-> pieces_table[rows[joined[k]].piece_id].composer]]

\* the keys of a defaultdict filled in the order of seq: first occurrences
RECURSIVE FirstOccurrences(_)
FirstOccurrences(seq) ==
  IF seq = <<>> THEN <<>>
  ELSE LET rest == FirstOccurrences(SubSeq(seq, 1, Len(seq) - 1))
           last == seq[Len(seq)]
       IN  IF last \in Range(rest) THEN rest ELSE Append(rest, last)

\* the rows process_ngram_data adds to global_values[ngram_value]
global_group_rows(ngram_data, ngram_value) ==
  {k \in DOMAIN ngram_data : ngram_data[k].ngram = ngram_value}

\* a per-Configuration group that takes the rows of every Configuration
set_group_rows_any_set(ngram_data, set_key) ==
  {k \in DOMAIN ngram_data : ngram_data[k].ngram = set_key[1]}

\* the rows process_ngram_data adds to set_values[(ngram_value, set_id)]
set_group_rows(ngram_data, set_key) ==
  {k \in DOMAIN ngram_data :
     /\ ngram_data[k].ngram = set_key[1]
     /\ ngram_data[k].melodic_ngram_set_id = set_key[2]}

\* one group of process_ngram_data: note_ids appended row by row, the rest sets
Group(ngram_data, ks) ==
  [note_ids |-> [n \in 1..Cardinality(ks) |-> ngram_data[SortedSeq(ks)[n]].note_id],
   piece_ids |-> {ngram_data[k].piece_id : k \in ks},
   composers |-> {ngram_data[k].composer : k \in ks},
   voice_numbers |-> {ngram_data[k].voice : k \in ks},
   sets |-> {ngram_data[k].melodic_ngram_set_id : k \in ks}]

\* process_ngram_data: (global_values, set_values), each with its keys in
\* insertion order
process_ngram_data(ngram_data) ==
  LET global_keys == FirstOccurrences([k \in DOMAIN ngram_data |-> ngram_data[k].ngram])
      set_keys == FirstOccurrences([k \in DOMAIN ngram_data |->
                     <<ngram_data[k].ngram, ngram_data[k].melodic_ngram_set_id>>])
  IN  [global_keys |-> global_keys,
       global_values |-> [v \in Range(global_keys) |->
                            Group(ngram_data, global_group_rows(ngram_data, v))],
       set_keys |-> set_keys,
       set_values |-> [key \in Range(set_keys) |->
                         Group(ngram_data, set_group_rows(ngram_data, key))]]

\* insert_ngram_values: the rows of melodic_ngram_values, with the value_id
\* AUTOINCREMENT gives the k-th inserted row when the counter stands at seq
GlobalRows(processed, seq) ==
  {LET global_data == processed.global_values[processed.global_keys[k]]
   IN  [value_id |-> seq + k,
        ngram_value |-> processed.global_keys[k],
        total_occurrences |-> Len(global_data.note_ids),
        total_sets |-> Cardinality(global_data.sets),
        note_ids |-> SortList(global_data.note_ids),
        piece_ids |-> SortedSeq(global_data.piece_ids),
        composers |-> global_data.composers,
        piece_count |-> Cardinality(global_data.piece_ids),
        composer_count |-> Cardinality(global_data.composers),
        voice_numbers |-> SortedSeq(global_data.voice_numbers),
        voice_count |-> Cardinality(global_data.voice_numbers)]
   : k \in DOMAIN processed.global_keys}

\* a value_id_map that gives every pattern value the lowest value_id
value_id_map_lowest(global_rows) ==
  [v \in {g.ngram_value : g \in global_rows} |-> Min({g.value_id : g \in global_rows})]

\* value_id_map, read back with SELECT value_id, ngram_value
value_id_map(global_rows) ==
  [v \in {g.ngram_value : g \in global_rows} |->
     (CHOOSE g \in global_rows : g.ngram_value = v).value_id]

\* insert_ngram_values: the rows of melodic_ngram_value_sets
SetRows(processed, id_map, seq) ==
  {LET set_key == processed.set_keys[k]
       set_data == processed.set_values[set_key]
   IN  [value_set_id |-> seq + k,
        value_id |-> id_map[set_key[1]],
        melodic_ngram_set_id |-> set_key[2],
        set_occurrences |-> Len(set_data.note_ids),
        set_note_ids |-> SortList(set_data.note_ids),
        set_piece_ids |-> SortedSeq(set_data.piece_ids),
        set_composers |-> set_data.composers,
        set_piece_count |-> Cardinality(set_data.piece_ids),
        set_composer_count |-> Cardinality(set_data.composers),
        set_voice_numbers |-> SortedSeq(set_data.voice_numbers),
        set_voice_count |-> Cardinality(set_data.voice_numbers)]
   : k \in DOMAIN processed.set_keys}

\* sorted(note_ids) raises TypeError in one of the two loops of insert_ngram_values
InsertRaises(processed) ==
  \/ \E v \in DOMAIN processed.global_values :
       SortRaises(processed.global_values[v].note_ids)
  \/ \E key \in DOMAIN processed.set_values :
       SortRaises(processed.set_values[key].note_ids)

\* MelodicNgramValuesPopulator.populate_melodic_ngram_values, one call from
\* connect_db to close_db. DELETE does not reset the AUTOINCREMENT counters.
populate_melodic_ngram_values ==
  LET ngram_data == get_melodic_ngram_data(melodic_ngrams, pieces)
      processed == process_ngram_data(ngram_data)
      global_rows == GlobalRows(processed, sqlite_sequence.melodic_ngram_values)
      set_rows == SetRows(processed, value_id_map(global_rows),
                          sqlite_sequence.melodic_ngram_value_sets)
  IN  /\ sqlite_sequence.melodic_ngram_values + Len(processed.global_keys) <= MaxSeq
      /\ IF ngram_data = <<>> \/ InsertRaises(processed)
         THEN \* "No melodic ngram data found", or TypeError and rollback: return False
              /\ index_run' = [ran |-> TRUE, returned |-> FALSE]
              /\ UNCHANGED <<melodic_ngram_values, melodic_ngram_value_sets, sqlite_sequence>>
         ELSE \* DELETE both tables, INSERT, commit, statistics: return True
              /\ index_run' = [ran |-> TRUE, returned |-> TRUE]
              /\ melodic_ngram_values' = global_rows
              /\ melodic_ngram_value_sets' = set_rows
              /\ sqlite_sequence' =
                   [melodic_ngram_values |->
                      sqlite_sequence.melodic_ngram_values + Cardinality(global_rows),
                    melodic_ngram_value_sets |->
                      sqlite_sequence.melodic_ngram_value_sets + Cardinality(set_rows)]
      /\ UNCHANGED <<sourceVars, cacheVars, reconVars, minerVars, clearVars, lookupVars, pairVars, procVars>>

\* The source of the index builder is the miners' source, with the sets table as
\* create_melodic_ngram_sets leaves it.
IndexInit ==
  /\ pieces = [p \in PieceIds |-> [composer |-> IF p = 1 THEN "A" ELSE "B"]]
  /\ melodic_ngram_sets = [s \in SetIds |-> SetInfo(s, 3, FALSE, FALSE)]
  /\ notes = [n \in {MinerNote(p) : p \in PieceIds} |->
                [piece_id |-> n - 10, voice |-> 1, onset |-> 0]]
  /\ \E n \in 1..MaxOcc :
       /\ melodic_ngrams \in [1..n -> MinerRows]
       /\ \A i, j \in 1..n : i < j => IngestOrder(melodic_ngrams[i], melodic_ngrams[j])
  /\ melodic_ngram_values = {}
  /\ melodic_ngram_value_sets = {}
  /\ sqlite_sequence = NoSequence
  /\ index_run = NoIndexRun
  /\ fs = [d \in Dirs |-> NoDir]
  /\ index_file = NoFile
  /\ index = FreshIndex
  /\ lastPut = [k \in CacheKeys |-> NoPut]
  /\ loaded = NoLoad
  /\ checked = NoCheck
  /\ put_call = NoCall
  /\ last_run = NoRun
  /\ recon_txn = NoTxn
  /\ piece_pair_values = {}
  /\ piece_pair_value_sources = {}
  /\ miner_run = NoMinerRun
  /\ procs = NoProcs
  /\ note_pairs = {}
  /\ pairs_run = NoPairsRun
  /\ cleared = NoClear
  /\ lookup = NoLookup

IndexNext == populate_melodic_ngram_values

(***************************************************************************)
(* NOTE LOOKUP                                                             *)
(*                                                                         *)
(* Onsets and tolerances are counted in steps of 0.0005, half the default  *)
(* tolerance.                                                              *)
(***************************************************************************)
LookupTolerance == 2       \* tolerance: float = 0.001
LookupOffset == 1          \* onset + 0.0005
LookupOnsets == 0..MaxLookupOnset

\* SELECT note_id FROM notes WHERE piece_id = ? AND voice = ? AND
\* ABS(onset - ?) <= ? ORDER BY ABS(onset - ?) ASC LIMIT 1: the rows the query can
\* return, any of the nearest notes
LookupRows(piece_id, voice, onset, tolerance) ==
  LET within == {n \in DOMAIN notes :
                   /\ notes[n].piece_id = piece_id /\ notes[n].voice = voice
                   /\ Abs(notes[n].onset - onset) <= tolerance}
  IN  {n \in within :
         \A o \in within : Abs(notes[n].onset - onset) <= Abs(notes[o].onset - onset)}

\* find_note_id(piece_id, voice, onset, tolerance): result[0] if result else None
find_note_id(piece_id, voice, onset, tolerance) ==
  /\ \E result \in (IF LookupRows(piece_id, voice, onset, tolerance) = {}
                    THEN {NULL} ELSE LookupRows(piece_id, voice, onset, tolerance)) :
       lookup' = [valid |-> TRUE, call |-> "find_note_id", piece_id |-> piece_id,
                  voice |-> voice, onset |-> onset, tolerance |-> tolerance,
                  result |-> result]
  /\ UNCHANGED <<sourceVars, cacheVars, reconVars, minerVars, indexVars, clearVars,
                 pairVars, procVars>>

\* find_note_ids_batch(records, tolerance): one query per distinct
\* (piece_id, voice, onset) of the records, the keys without a row left out
find_note_ids_batch(records, tolerance) ==
  LET unique_keys == {<<r.piece_id, r.voice, r.onset>> : r \in records}
      found == {key \in unique_keys : LookupRows(key[1], key[2], key[3], tolerance) # {}}
  IN  /\ \E note_id_map \in [found -> DOMAIN notes] :
           /\ \A key \in found :
                note_id_map[key] \in LookupRows(key[1], key[2], key[3], tolerance)
           /\ lookup' = [valid |-> TRUE, call |-> "find_note_ids_batch",
                         records |-> records, tolerance |-> tolerance,
                         result |-> note_id_map]
      /\ UNCHANGED <<sourceVars, cacheVars, reconVars, minerVars, indexVars, clearVars,
                     pairVars, procVars>>

\* the lookup key of a note, as test_with_sample_data builds it
NoteKey(n) == [piece_id |-> notes[n].piece_id, voice |-> notes[n].voice,
               onset |-> notes[n].onset]

\* Two notes of the notes table, which holds a note once per note set.
LookupInit ==
  /\ pieces = [p \in ReconPieces |-> [composer |-> "A"]]
  /\ notes \in [NoteIds -> [piece_id : ReconPieces, voice : Voices, onset : LookupOnsets]]
  /\ lookup = NoLookup
  /\ melodic_ngram_sets = EmptyMap
  /\ melodic_ngrams = <<>>
  /\ last_run = NoRun
  /\ recon_txn = NoTxn
  /\ fs = [d \in Dirs |-> NoDir]
  /\ index_file = NoFile
  /\ index = FreshIndex
  /\ lastPut = [k \in CacheKeys |-> NoPut]
  /\ loaded = NoLoad
  /\ checked = NoCheck
  /\ put_call = NoCall
  /\ cleared = NoClear
  /\ piece_pair_values = {}
  /\ piece_pair_value_sources = {}
  /\ miner_run = NoMinerRun
  /\ melodic_ngram_values = {}
  /\ melodic_ngram_value_sets = {}
  /\ sqlite_sequence = NoSequence
  /\ index_run = NoIndexRun
  /\ note_pairs = {}
  /\ pairs_run = NoPairsRun
  /\ procs = NoProcs

\* the lookups of test_with_sample_data, for any sample note
LookupNext ==
  \/ \E n \in NoteIds, offset \in {0, LookupOffset} :
       find_note_id(notes[n].piece_id, notes[n].voice, notes[n].onset + offset,
                    LookupTolerance)
  \/ \E sample \in SUBSET NoteIds :
       find_note_ids_batch({NoteKey(n) : n \in sample}, LookupTolerance)

(***************************************************************************)
(* NOTE PAIR GENERATOR                                                     *)
(***************************************************************************)
\* the value SQLite stores for a comparison of two non-NULL values
SqlEquals(x, y) == IF x = y THEN 1 ELSE 0

NotePairRow(notes_table, pieces_table, a, b) ==
  [note_a_id |-> a, note_b_id |-> b,
   composer_a |-> pieces_table[notes_table[a].piece_id].composer,
   composer_b |-> pieces_table[notes_table[b].piece_id].composer,
   same_composer |-> SqlEquals(pieces_table[notes_table[a].piece_id].composer,
                               pieces_table[notes_table[b].piece_id].composer),
   piece_a_id |-> notes_table[a].piece_id, piece_b_id |-> notes_table[b].piece_id,
   same_piece |-> SqlEquals(notes_table[a].piece_id, notes_table[b].piece_id),
   voice_a |-> notes_table[a].voice, voice_b |-> notes_table[b].voice,
   same_voice |-> SqlEquals(notes_table[a].voice, notes_table[b].voice),
   onset_a |-> notes_table[a].onset, onset_b |-> notes_table[b].onset]

\* the pair query without the self-pairs
insert_sql_strict(notes_table, pieces_table) ==
  {NotePairRow(notes_table, pieces_table, a, b) :
     <<a, b>> \in {ab \in (DOMAIN notes_table) \X (DOMAIN notes_table) :
                     /\ notes_table[ab[1]].piece_id \in DOMAIN pieces_table
                     /\ notes_table[ab[2]].piece_id \in DOMAIN pieces_table
                     /\ ab[1] < ab[2]}}

\* insert_sql of generate_note_pairs: notes a CROSS JOIN notes b, INNER JOIN
\* pieces on both sides, WHERE a.note_id <= b.note_id
insert_sql(notes_table, pieces_table) ==
  {NotePairRow(notes_table, pieces_table, a, b) :
     <<a, b>> \in {ab \in (DOMAIN notes_table) \X (DOMAIN notes_table) :
                     /\ notes_table[ab[1]].piece_id \in DOMAIN pieces_table
                     /\ notes_table[ab[2]].piece_id \in DOMAIN pieces_table
                     /\ ab[1] <= ab[2]}}

\* NotePairsGenerator.generate_note_pairs(clear_existing), with the answer typed
\* at its prompt when pairs exist and clear_existing is False
generate_note_pairs(clear_existing, response) ==
  /\ IF DOMAIN notes = {}
     THEN \* check_prerequisites: "No notes found in database"
          /\ pairs_run' = [ran |-> TRUE, returned |-> FALSE, generated |-> FALSE]
          /\ UNCHANGED note_pairs
     ELSE IF note_pairs # {} /\ ~clear_existing /\ response # "y"
     THEN \* "Keeping existing pairs. Exiting."
          /\ pairs_run' = [ran |-> TRUE, returned |-> TRUE, generated |-> FALSE]
          /\ UNCHANGED note_pairs
     ELSE \* clear_existing_pairs when pairs exist, INSERT .. SELECT, commit
          /\ pairs_run' = [ran |-> TRUE, returned |-> TRUE, generated |-> TRUE]
          /\ note_pairs' = insert_sql(notes, pieces)
  /\ UNCHANGED <<sourceVars, cacheVars, reconVars, minerVars, indexVars, clearVars, lookupVars, procVars>>

\* Notes 1..n of the pieces of the pieces table, in one of two voices; the
\* note_pairs table exists and is empty.
PairsInit ==
  /\ pieces = [p \in PieceIds |-> [composer |-> IF p = 1 THEN "A" ELSE "B"]]
  /\ \E n \in 0..MaxNotes :
       notes \in [1..n -> [piece_id : PieceIds, voice : {1, 2}, onset : {0}]]
  /\ note_pairs = {}
  /\ pairs_run = NoPairsRun
  /\ cleared = NoClear
  /\ lookup = NoLookup
  /\ melodic_ngram_sets = [s \in SetIds |-> SetInfo(s, 3, FALSE, FALSE)]
  /\ melodic_ngrams = <<>>
  /\ piece_pair_values = {}
  /\ piece_pair_value_sources = {}
  /\ miner_run = NoMinerRun
  /\ melodic_ngram_values = {}
  /\ melodic_ngram_value_sets = {}
  /\ sqlite_sequence = NoSequence
  /\ index_run = NoIndexRun
  /\ procs = NoProcs
  /\ fs = [d \in Dirs |-> NoDir]
  /\ index_file = NoFile
  /\ index = FreshIndex
  /\ lastPut = [k \in CacheKeys |-> NoPut]
  /\ loaded = NoLoad
  /\ checked = NoCheck
  /\ put_call = NoCall
  /\ last_run = NoRun
  /\ recon_txn = NoTxn

PairsNext ==
  \E clear_existing \in BOOLEAN, response \in {"y", "n"} :
    generate_note_pairs(clear_existing, response)

(***************************************************************************)
(* DESTRUCTIVE REFRESHES, STATEMENT BY STATEMENT                           *)
(*                                                                         *)
(* Two processes each call populate_melodic_ngram_values or                *)
(* populate_piece_pair_values once on one analysis.db, each on its own     *)
(* connection. The table variables hold the committed content, which is    *)
(* what any other connection reads; procs[w].working is what the           *)
(* connection of process w reads while its transaction is open.            *)
(***************************************************************************)
Procs == {1, 2}

NoWorking == [melodic_ngram_values |-> {}, melodic_ngram_value_sets |-> {},
              piece_pair_values |-> {}]

IdleProc ==
  [kind |-> "none", pc |-> "idle", returned |-> FALSE, cleared |-> FALSE,
   shared_records |-> {}, working |-> NoWorking, sequence |-> NoSequence]

\* the connection of the process holds an open write transaction
InWrite(proc) == proc.pc \in {"cleared", "global", "sets", "inserted"}

\* a populator object exists and has not returned
Running(proc) == proc.pc \notin {"idle", "returned", "crashed"}

\* a statement that writes, executed without isolation: every connection reads
\* its result at once
AfterStatement_autocommit(committed, result) == result

\* sqlite3.connect(self.db_path) keeps the default isolation level: DELETE and
\* INSERT run inside an implicit transaction, and the committed content, which
\* other connections read, stays as it is until commit()
AfterStatement(committed, result) == committed

\* a database whose first write takes no lock
WriteLockFree_unlocked(w) == TRUE

\* SQLite gives the write lock of the database file to one connection at a time
WriteLockFree(w) == \A o \in DOMAIN procs \ {w} : ~InWrite(procs[o])

RunsProcessed == process_ngram_data(get_melodic_ngram_data(melodic_ngrams, pieces))

GlobalInsertRaises(processed) ==
  \E v \in DOMAIN processed.global_values :
    SortRaises(processed.global_values[v].note_ids)

SetInsertRaises(processed) ==
  \E key \in DOMAIN processed.set_values :
    SortRaises(processed.set_values[key].note_ids)

Returns(proc, value) == [proc EXCEPT !.pc = "returned", !.returned = value]

\* populate_melodic_ngram_values up to the call of insert_ngram_values:
\* connect_db, get_melodic_ngram_data, process_ngram_data
IndexBegin(w) ==
  /\ procs[w].pc = "idle"
  /\ sqlite_sequence.melodic_ngram_values + Len(RunsProcessed.global_keys) <= MaxSeq
  /\ procs' = [procs EXCEPT ![w] =
       IF get_melodic_ngram_data(melodic_ngrams, pieces) = <<>>
       THEN Returns([IdleProc EXCEPT !.kind = "index"], FALSE)
       ELSE [IdleProc EXCEPT !.kind = "index", !.pc = "read"]]
  /\ UNCHANGED <<sourceVars, cacheVars, clearVars, lookupVars, pairVars, reconVars, minerVars, indexVars>>

\* the two DELETE statements of insert_ngram_values
IndexClear(w) ==
  /\ procs[w].kind = "index" /\ procs[w].pc = "read"
  /\ WriteLockFree(w)
  /\ procs' = [procs EXCEPT ![w].pc = "cleared", ![w].cleared = TRUE,
                            ![w].working = NoWorking, ![w].sequence = sqlite_sequence]
  /\ melodic_ngram_values' = AfterStatement(melodic_ngram_values, {})
  /\ melodic_ngram_value_sets' = AfterStatement(melodic_ngram_value_sets, {})
  /\ UNCHANGED <<sqlite_sequence, index_run, sourceVars, cacheVars, clearVars, lookupVars, pairVars, reconVars, minerVars>>

\* the loop over global_values: TypeError of sorted() ends the call in
\* rollback() and False
IndexInsertGlobal(w) ==
  /\ procs[w].kind = "index" /\ procs[w].pc = "cleared"
  /\ IF GlobalInsertRaises(RunsProcessed)
     THEN /\ procs' = [procs EXCEPT ![w] = Returns(procs[w], FALSE)]
          /\ UNCHANGED melodic_ngram_values
     ELSE LET global_rows == GlobalRows(RunsProcessed,
                                        procs[w].sequence.melodic_ngram_values)
          IN  /\ procs' = [procs EXCEPT
                   ![w].pc = "global",
                   ![w].working.melodic_ngram_values = global_rows,
                   ![w].sequence.melodic_ngram_values = @ + Cardinality(global_rows)]
              /\ melodic_ngram_values' = AfterStatement(melodic_ngram_values, global_rows)
  /\ UNCHANGED <<melodic_ngram_value_sets, sqlite_sequence, index_run,
                 sourceVars, cacheVars, clearVars, lookupVars, pairVars, reconVars, minerVars>>

\* the SELECT of the value ids, the loop over set_values and executemany
IndexInsertSets(w) ==
  /\ procs[w].kind = "index" /\ procs[w].pc = "global"
  /\ IF SetInsertRaises(RunsProcessed)
     THEN /\ procs' = [procs EXCEPT ![w] = Returns(procs[w], FALSE)]
          /\ UNCHANGED melodic_ngram_value_sets
     ELSE LET set_rows == SetRows(RunsProcessed,
                                  value_id_map(procs[w].working.melodic_ngram_values),
                                  procs[w].sequence.melodic_ngram_value_sets)
          IN  /\ procs' = [procs EXCEPT
                   ![w].pc = "sets",
                   ![w].working.melodic_ngram_value_sets = set_rows,
                   ![w].sequence.melodic_ngram_value_sets = @ + Cardinality(set_rows)]
              /\ melodic_ngram_value_sets' =
                   AfterStatement(melodic_ngram_value_sets, set_rows)
  /\ UNCHANGED <<melodic_ngram_values, sqlite_sequence, index_run,
                 sourceVars, cacheVars, clearVars, lookupVars, pairVars, reconVars, minerVars>>

\* self.conn.commit(), generate_statistics, return True
IndexCommit(w) ==
  /\ procs[w].kind = "index" /\ procs[w].pc = "sets"
  /\ melodic_ngram_values' = procs[w].working.melodic_ngram_values
  /\ melodic_ngram_value_sets' = procs[w].working.melodic_ngram_value_sets
  /\ sqlite_sequence' = procs[w].sequence
  /\ index_run' = [ran |-> TRUE, returned |-> TRUE]
  /\ procs' = [procs EXCEPT ![w] = Returns(procs[w], TRUE)]
  /\ UNCHANGED <<sourceVars, cacheVars, clearVars, lookupVars, pairVars, reconVars, minerVars>>

\* populate_piece_pair_values up to the call of insert_piece_pair_values
MinerBegin(w) ==
  LET piece_ngrams == get_piece_ngram_values(melodic_ngrams)
      piece_pairs == generate_piece_pairs(SortedSeq(DOMAIN pieces))
      shared_records == find_shared_values(piece_ngrams, piece_pairs, pieces)
  IN  /\ procs[w].pc = "idle"
      /\ procs' = [procs EXCEPT ![w] =
           IF \/ pieces = EmptyMap \/ piece_ngrams = EmptyMap \/ piece_pairs = <<>>
              \/ \E e \in shared_records : e.raises
           THEN Returns([IdleProc EXCEPT !.kind = "values"], FALSE)
           ELSE [IdleProc EXCEPT !.kind = "values", !.pc = "computed",
                                 !.shared_records = shared_records]]
      /\ UNCHANGED <<sourceVars, cacheVars, clearVars, lookupVars, pairVars, reconVars, minerVars, indexVars>>

\* DELETE FROM piece_pair_values
MinerClear(w) ==
  /\ procs[w].kind = "values" /\ procs[w].pc = "computed"
  /\ WriteLockFree(w)
  /\ procs' = [procs EXCEPT ![w].pc = "cleared", ![w].cleared = TRUE,
                            ![w].working = NoWorking]
  /\ piece_pair_values' = AfterStatement(piece_pair_values, {})
  /\ UNCHANGED <<piece_pair_value_sources, miner_run, sourceVars, cacheVars, clearVars, lookupVars, pairVars,
                 reconVars, indexVars>>

\* 'if not shared_records: return 0' (then generate_statistics, True, and
\* close_db, which drops the DELETE), or the executemany batches: all the records
\* go in the first batch, batch_size being far above the bounds
MinerInsert(w) ==
  /\ procs[w].kind = "values" /\ procs[w].pc = "cleared"
  /\ Cardinality(procs[w].shared_records) <= InsertBatchSize
  /\ IF procs[w].shared_records = {}
     THEN /\ procs' = [procs EXCEPT ![w] = Returns(procs[w], TRUE)]
          /\ UNCHANGED piece_pair_values
     ELSE IF ViolatesPairValues(procs[w].shared_records)
     THEN /\ procs' = [procs EXCEPT ![w] = Returns(procs[w], FALSE)]
          /\ UNCHANGED piece_pair_values
     ELSE /\ procs' = [procs EXCEPT
               ![w].pc = "inserted",
               ![w].working.piece_pair_values = Inserted(procs[w].shared_records)]
          /\ piece_pair_values' =
               AfterStatement(piece_pair_values, Inserted(procs[w].shared_records))
  /\ UNCHANGED <<piece_pair_value_sources, miner_run, sourceVars, cacheVars, clearVars, lookupVars, pairVars,
                 reconVars, indexVars>>

\* self.conn.commit(), generate_statistics, return True
MinerCommit(w) ==
  /\ procs[w].kind = "values" /\ procs[w].pc = "inserted"
  /\ piece_pair_values' = procs[w].working.piece_pair_values
  /\ procs' = [procs EXCEPT ![w] = Returns(procs[w], TRUE)]
  /\ UNCHANGED <<piece_pair_value_sources, miner_run, sourceVars, cacheVars, clearVars, lookupVars, pairVars,
                 reconVars, indexVars>>

\* the DELETE finds the database locked by the other connection until the
\* connection's timeout: OperationalError, rollback(), False
DatabaseLocked(w) ==
  /\ procs[w].pc \in {"read", "computed"}
  /\ ~WriteLockFree(w)
  /\ procs' = [procs EXCEPT ![w] = Returns(procs[w], FALSE)]
  /\ UNCHANGED <<sourceVars, cacheVars, clearVars, lookupVars, pairVars, reconVars, minerVars, indexVars>>

\* the process is killed: its connection dies with whatever it had not committed
ProcCrash(w) ==
  /\ Running(procs[w])
  /\ procs' = [procs EXCEPT ![w].pc = "crashed"]
  /\ UNCHANGED <<sourceVars, cacheVars, clearVars, lookupVars, pairVars, reconVars, minerVars, indexVars>>

\* the store's owner removes a piece's occurrences while no populator runs
RemoveBetweenRuns(p) ==
  /\ \A w \in Procs : ~Running(procs[w])
  /\ \E i \in DOMAIN melodic_ngrams : melodic_ngrams[i].piece_id = p
  /\ melodic_ngrams' = SelectSeq(melodic_ngrams, LAMBDA r : r.piece_id # p)
  /\ UNCHANGED <<pieces, melodic_ngram_sets, notes, procs,
                 cacheVars, clearVars, lookupVars, pairVars, reconVars, minerVars, indexVars>>

\* The source as one ingestion pass leaves it, with up to MaxRunOcc occurrences;
\* the derived tables are empty and no populator runs.
RunsInit ==
  /\ pieces = [p \in PieceIds |-> [composer |-> IF p = 1 THEN "A" ELSE "B"]]
  /\ melodic_ngram_sets = [s \in SetIds |-> SetInfo(s, 3, FALSE, FALSE)]
  /\ notes = [n \in {MinerNote(p) : p \in PieceIds} |->
                [piece_id |-> n - 10, voice |-> 1, onset |-> 0]]
  /\ \E n \in 1..MaxRunOcc :
       /\ melodic_ngrams \in [1..n -> MinerRows]
       /\ \A i, j \in 1..n : i < j => IngestOrder(melodic_ngrams[i], melodic_ngrams[j])
  /\ piece_pair_values = {}
  /\ piece_pair_value_sources = {}
  /\ miner_run = NoMinerRun
  /\ melodic_ngram_values = {}
  /\ melodic_ngram_value_sets = {}
  /\ sqlite_sequence = NoSequence
  /\ index_run = NoIndexRun
  /\ procs = [w \in Procs |-> IdleProc]
  /\ note_pairs = {}
  /\ pairs_run = NoPairsRun
  /\ cleared = NoClear
  /\ lookup = NoLookup
  /\ fs = [d \in Dirs |-> NoDir]
  /\ index_file = NoFile
  /\ index = FreshIndex
  /\ lastPut = [k \in CacheKeys |-> NoPut]
  /\ loaded = NoLoad
  /\ checked = NoCheck
  /\ put_call = NoCall
  /\ last_run = NoRun
  /\ recon_txn = NoTxn

RunsNext ==
  \/ \E w \in Procs :
       \/ IndexBegin(w) \/ IndexClear(w) \/ IndexInsertGlobal(w)
       \/ IndexInsertSets(w) \/ IndexCommit(w)
       \/ MinerBegin(w) \/ MinerClear(w) \/ MinerInsert(w) \/ MinerCommit(w)
       \/ DatabaseLocked(w) \/ ProcCrash(w)
  \/ \E p \in PieceIds : RemoveBetweenRuns(p)

(***************************************************************************)
(* CLEARING A STAGE AND SET OF THE CACHE                                   *)
(***************************************************************************)
\* the directory clear_stage_set removes for one format:
\* os.path.join(cache_dir, file_format, stage, f'set{set_id}')
ClearedStageDir(file_format, stage, set_id) == <<file_format, stage, <<"set">> \o set_id>>

\* shutil.rmtree of the stage directory of both formats, when it exists: every
\* piece directory below it is gone
ClearedTree(tree, stage, set_id) ==
  [d \in DOMAIN tree |->
     IF \E file_format \in {"pkl", "csv"} :
          <<d[1], d[2], d[3]>> = ClearedStageDir(file_format, stage, set_id)
     THEN NoDir ELSE tree[d]]

\* keys_to_remove: the records whose 'stage' and 'set_id' equal the arguments
ClearedIndex(idx, stage, set_id) ==
  [key \in {x \in DOMAIN idx : ~(idx[x].stage = stage /\ idx[x].set_id = set_id)} |->
     idx[key]]

\* clear_stage_set(stage, set_id); lastPut forgets the puts of that stage and set
clear_stage_set(stage, set_id) ==
  /\ fs' = ClearedTree(fs, stage, set_id)
  /\ index' = ClearedIndex(index, stage, set_id)
  /\ index_file' = [exists |-> TRUE, pieces |-> index']          \* _save_index
  /\ cleared' = [valid |-> TRUE, stage |-> stage, set_id |-> set_id, returned |-> TRUE]
  /\ lastPut' = [k \in CacheKeys |->
                   IF k.stage = stage /\ k.set_slug = set_id THEN NoPut ELSE lastPut[k]]
  /\ loaded' = NoLoad
  /\ checked' = NoCheck
  /\ UNCHANGED <<put_call, sourceVars, reconVars, minerVars, indexVars, lookupVars, pairVars, procVars>>

CacheClearNext ==
  \/ \E k \in CacheKeys, data_dict \in DataDicts, metadata \in Metadatas :
       Put(k, data_dict, metadata)
  \/ \E stage \in Stages, set_id \in SetIds_of_has : clear_stage_set(stage, set_id)

(***************************************************************************)
(* TWO CACHE MANAGERS ON ONE CACHE DIRECTORY                               *)
(*                                                                         *)
(* Each worker process imports crim_cache_manager and so constructs its    *)
(* own CrimCacheManager; procs[w].index is that object's self.index.       *)
(***************************************************************************)
WorkerPieceKeys == {"p1", "p2"}

WorkerKeys ==
  [stage : Stages, fmt : Formats, set_slug : SetSlugs, piece_key : WorkerPieceKeys]

NoManager == [constructed |-> FALSE]

\* _save_index: json.dump(self.index) over whatever the file held
SavedIndex(file, idx) == idx

\* cache_manager = CrimCacheManager(): __init__ with its _load_index
Construct(w) ==
  /\ ~procs[w].constructed
  /\ procs' = [procs EXCEPT ![w] =
       [constructed |-> TRUE, loaded_from |-> index_file, index |-> _load_index,
        put |-> FALSE]]
  /\ UNCHANGED <<sourceVars, cacheVars, reconVars, minerVars, indexVars, clearVars, lookupVars, pairVars>>

\* save_stage_cache by the manager of worker w
WorkerPut(w, k, data_dict, metadata) ==
  /\ procs[w].constructed /\ ~procs[w].put
  /\ fs' = [fs EXCEPT ![PieceDir(k)] = WrittenDir(@, k, data_dict, metadata)]
  /\ procs' = [procs EXCEPT ![w] =
       [constructed |-> TRUE, loaded_from |-> procs[w].loaded_from,
        index |-> UpdatedIndex(procs[w].index, k, data_dict, metadata),
        put |-> TRUE, key |-> k]]
  /\ index_file' = [exists |-> TRUE,
                    pieces |-> SavedIndex(index_file, procs'[w].index)]
  /\ UNCHANGED <<index, lastPut, loaded, checked, put_call>>
  /\ UNCHANGED <<sourceVars, reconVars, minerVars, indexVars, clearVars, lookupVars, pairVars>>

\* A cache directory whose index file is absent; no manager is constructed yet.
WorkersInit ==
  /\ fs = [d \in {PieceDir(k) : k \in WorkerKeys} |-> NoDir]
  /\ index_file = NoFile
  /\ index = FreshIndex
  /\ lastPut = [k \in CacheKeys |-> NoPut]
  /\ loaded = NoLoad
  /\ checked = NoCheck
  /\ put_call = NoCall
  /\ procs = [w \in Procs |-> NoManager]
  /\ pieces = EmptyMap
  /\ melodic_ngram_sets = EmptyMap
  /\ notes = EmptyMap
  /\ melodic_ngrams = <<>>
  /\ last_run = NoRun
  /\ recon_txn = NoTxn
  /\ piece_pair_values = {}
  /\ piece_pair_value_sources = {}
  /\ miner_run = NoMinerRun
  /\ melodic_ngram_values = {}
  /\ melodic_ngram_value_sets = {}
  /\ sqlite_sequence = NoSequence
  /\ index_run = NoIndexRun
  /\ note_pairs = {}
  /\ pairs_run = NoPairsRun
  /\ cleared = NoClear
  /\ lookup = NoLookup

WorkersNext ==
  \E w \in Procs :
    \/ Construct(w)
    \/ \E k \in WorkerKeys, data_dict \in DataDicts, metadata \in Metadatas :
         WorkerPut(w, k, data_dict, metadata)

(***************************************************************************)
(* Specifications, one per component.                                      *)
(***************************************************************************)
SpecCache == CacheInit /\ [][CacheNext]_vars

SpecCacheCrash == CacheInit /\ [][CacheCrashNext]_vars

SpecRecon == ReconInit /\ [][ReconNext]_vars

SpecReconCrash == ReconInit /\ [][ReconCrashNext]_vars

SpecMiner == MinerInit /\ [][MinerNext]_vars

SpecIndex == IndexInit /\ [][IndexNext]_vars

SpecCacheClear == CacheInit /\ [][CacheClearNext]_vars

(***************************************************************************)
(* TWO RECONCILER RUNS ON ONE ANALYSIS TABLE                               *)
(*                                                                         *)
(* Two calls of update_note_ids_batch_optimized('melodic_ngrams'), each on *)
(* its own connection, followed statement by statement.  SELECT and CREATE *)
(* TEMP TABLE ... AS SELECT run outside a transaction and read the         *)
(* committed table; the first UPDATE of a connection opens its transaction *)
(* and takes the write lock, which it keeps until commit().                *)
(***************************************************************************)
IdleRun ==
  [pc |-> "idle", strategy |-> "none", tolerance |-> NULL, batch_size |-> NULL,
   all_ids |-> <<>>, i |-> 1 + NULL, mapping |-> {}, open |-> FALSE, rows |-> <<>>,
   updated |-> {}, returned |-> NULL]

\* the table as the connection of run p reads it: its own transaction's content
\* once it has one, the committed content before
RunView(p) == IF procs[p].open THEN procs[p].rows ELSE melodic_ngrams

\* no other connection holds the write lock
RunLockFree(p) == \A o \in DOMAIN procs \ {p} : ~procs[o].open

\* SELECT COUNT(*) ... WHERE note_id IS NULL, then the choice of the strategy
RunCount(p, tolerance, batch_size) ==
  /\ procs[p].pc = "idle"
  /\ LET total_count == Cardinality(Unmatched(melodic_ngrams, NoPiece))
     IN  procs' = [procs EXCEPT ![p] =
           [@ EXCEPT !.tolerance = tolerance, !.batch_size = batch_size,
                     !.pc = IF total_count = 0 THEN "returned" ELSE "counted",
                     !.strategy = IF total_count = 0 THEN "none"
                                  ELSE IF total_count > batch_size THEN "batches"
                                  ELSE "all"]]
  /\ UNCHANGED <<sourceVars, cacheVars, reconVars, minerVars, indexVars, clearVars,
                 lookupVars, pairVars>>

\* _update_all_at_once: CREATE TEMP TABLE temp_note_mapping over the rows that are
\* unmatched now
AllBuildMapping(p) ==
  /\ procs[p].pc = "counted"
  /\ procs[p].strategy = "all"
  /\ procs' = [procs EXCEPT ![p] =
       [@ EXCEPT !.pc = "mapped",
                 !.mapping = temp_note_mapping(melodic_ngrams,
                               Unmatched(melodic_ngrams, NoPiece), procs[p].tolerance)]]
  /\ UNCHANGED <<sourceVars, cacheVars, reconVars, minerVars, indexVars, clearVars,
                 lookupVars, pairVars>>

\* _update_all_at_once: the UPDATE, on the table as it is now, for the targets of
\* the mapping
AllUpdate(p) ==
  /\ procs[p].pc = "mapped"
  /\ RunLockFree(p)
  /\ \E pick \in Picks(melodic_ngrams, procs[p].tolerance) :
       /\ PickAllowed(pick, procs[p].mapping)
       /\ \A j \in (DOMAIN melodic_ngrams) \ Updatable(procs[p].mapping) : pick[j] = NULL
       /\ procs' = [procs EXCEPT ![p] =
            [@ EXCEPT !.pc = "updated", !.open = TRUE,
                      !.rows = ApplyMapping(melodic_ngrams, procs[p].mapping, pick),
                      !.updated = Updatable(procs[p].mapping)]]
  /\ UNCHANGED <<sourceVars, cacheVars, reconVars, minerVars, indexVars, clearVars,
                 lookupVars, pairVars>>

\* _update_in_batches: SELECT pk ... WHERE note_id IS NULL ORDER BY pk
BatchReadIds(p) ==
  /\ procs[p].pc = "counted"
  /\ procs[p].strategy = "batches"
  /\ procs' = [procs EXCEPT ![p] =
       [@ EXCEPT !.pc = "loop", !.i = 1,
                 !.all_ids = SortedSeq(Unmatched(melodic_ngrams, NoPiece))]]
  /\ UNCHANGED <<sourceVars, cacheVars, reconVars, minerVars, indexVars, clearVars,
                 lookupVars, pairVars>>

\* _update_in_batches: CREATE TEMP TABLE temp_batch_mapping ... WHERE pk IN (batch_ids)
BatchBuildMapping(p) ==
  /\ procs[p].pc = "loop"
  /\ procs[p].i <= Len(procs[p].all_ids)
  /\ LET batch_ids == Range(Slice(procs[p].all_ids, procs[p].i, procs[p].batch_size))
     IN  procs' = [procs EXCEPT ![p] =
           [@ EXCEPT !.pc = "batch_mapped",
                     !.mapping = temp_note_mapping(RunView(p), batch_ids,
                                                   procs[p].tolerance)]]
  /\ UNCHANGED <<sourceVars, cacheVars, reconVars, minerVars, indexVars, clearVars,
                 lookupVars, pairVars>>

\* _update_in_batches: the UPDATE of the batch; the first one opens the transaction
BatchUpdate(p) ==
  /\ procs[p].pc = "batch_mapped"
  /\ procs[p].open \/ RunLockFree(p)
  /\ \E pick \in Picks(RunView(p), procs[p].tolerance) :
       /\ PickAllowed(pick, procs[p].mapping)
       /\ \A j \in (DOMAIN RunView(p)) \ Updatable(procs[p].mapping) : pick[j] = NULL
       /\ procs' = [procs EXCEPT ![p] =
            [@ EXCEPT !.pc = "loop", !.open = TRUE,
                      !.rows = ApplyMapping(RunView(p), procs[p].mapping, pick),
                      !.updated = @ \cup Updatable(procs[p].mapping),
                      !.i = @ + procs[p].batch_size]]
  /\ UNCHANGED <<sourceVars, cacheVars, reconVars, minerVars, indexVars, clearVars,
                 lookupVars, pairVars>>

\* cursor.connection.commit(), close, return the number of updated rows
RunCommit(p) ==
  /\ \/ procs[p].pc = "updated"
     \/ procs[p].pc = "loop" /\ procs[p].i > Len(procs[p].all_ids)
  /\ melodic_ngrams' = RunView(p)
  /\ procs' = [procs EXCEPT ![p] =
       [@ EXCEPT !.pc = "returned", !.open = FALSE,
                 !.returned = Cardinality(procs[p].updated)]]
  /\ UNCHANGED <<pieces, melodic_ngram_sets, notes, cacheVars, reconVars, minerVars,
                 indexVars, clearVars, lookupVars, pairVars>>

\* the first UPDATE of the run finds the write lock held until its timeout ends:
\* 'database is locked' is a sqlite3.Error, the run rolls back and returns 0
RunLocked(p) ==
  /\ procs[p].pc \in {"mapped", "batch_mapped"}
  /\ ~procs[p].open
  /\ ~RunLockFree(p)
  /\ procs' = [procs EXCEPT ![p] = [@ EXCEPT !.pc = "returned", !.returned = 0]]
  /\ UNCHANGED <<sourceVars, cacheVars, reconVars, minerVars, indexVars, clearVars,
                 lookupVars, pairVars>>

\* Unmatched rows and notes of one piece, as ingest_melodic_ngrams leaves them
\* before its reconciler call.
TwoRunsInit ==
  /\ pieces = [p \in ReconPieces |-> [composer |-> "A"]]
  /\ melodic_ngram_sets = EmptyMap
  /\ notes \in [NoteIds -> [piece_id : {1}, voice : Voices, onset : Onsets]]
  /\ \E n \in 1..MaxRows :
       melodic_ngrams \in [1..n -> {NgramRow(p, 1, v, o, 1, NULL) :
                                      p \in ReconPieces, v \in Voices, o \in Onsets}]
  /\ procs = [p \in Procs |-> IdleRun]
  /\ last_run = NoRun
  /\ recon_txn = NoTxn
  /\ fs = [d \in Dirs |-> NoDir]
  /\ index_file = NoFile
  /\ index = FreshIndex
  /\ lastPut = [k \in CacheKeys |-> NoPut]
  /\ loaded = NoLoad
  /\ checked = NoCheck
  /\ put_call = NoCall
  /\ piece_pair_values = {}
  /\ piece_pair_value_sources = {}
  /\ miner_run = NoMinerRun
  /\ melodic_ngram_values = {}
  /\ melodic_ngram_value_sets = {}
  /\ sqlite_sequence = NoSequence
  /\ index_run = NoIndexRun
  /\ note_pairs = {}
  /\ pairs_run = NoPairsRun
  /\ cleared = NoClear
  /\ lookup = NoLookup

TwoRunsNext ==
  \E p \in Procs :
    \/ \E tolerance \in Tolerances, batch_size \in BatchSizes :
         RunCount(p, tolerance, batch_size)
    \/ AllBuildMapping(p)
    \/ AllUpdate(p)
    \/ BatchReadIds(p)
    \/ BatchBuildMapping(p)
    \/ BatchUpdate(p)
    \/ RunCommit(p)
    \/ RunLocked(p)

SpecWorkers == WorkersInit /\ [][WorkersNext]_vars

SpecLookup == LookupInit /\ [][LookupNext]_vars

SpecPairs == PairsInit /\ [][PairsNext]_vars

SpecRuns == RunsInit /\ [][RunsNext]_vars

SpecTwoRuns == TwoRunsInit /\ [][TwoRunsNext]_vars

\* what the most recent put under key k stored: its artifacts plus its metadata
Stored(k) ==
  [present |-> TRUE,
   value |-> [key \in (DOMAIN lastPut[k].data_dict) \cup {"metadata"} |->
     IF key = "metadata" THEN [metadata |-> lastPut[k].metadata]
     ELSE [frame |-> lastPut[k].data_dict[key]]]]

\* C1: a get with the key of the most recent put returns exactly that put's
\* artifacts (same names, same contents) plus its metadata, also after a restart
\* and also when an earlier put under the key stored other artifact names.
C1_RoundTrip ==
  (loaded.valid /\ lastPut[loaded.key].put) => loaded.result = Stored(loaded.key)

\* distance in onset between analysis row r and note n
OnsetDiff(r, n) == Abs(notes[n].onset - r.onset)

\* the notes of the row's piece and voice within the tolerance of its onset
Candidates(r, tolerance) ==
  {n \in DOMAIN notes : /\ notes[n].piece_id = r.piece_id
                         /\ notes[n].voice = r.voice
                         /\ OnsetDiff(r, n) <= tolerance}

\* C2: every row a reconciler run resolves gets, among the notes of its piece and
\* voice within the tolerance, one with the smallest onset difference and, among
\* equally near ones, the one with the lowest note id.
C2_NearestLowestId ==
  last_run.ran =>
    \A i \in last_run.updated :
      LET r == melodic_ngrams[i]
          c == Candidates(r, last_run.tolerance)
      IN  /\ r.note_id \in c
          /\ \A n \in c : \/ OnsetDiff(r, r.note_id) < OnsetDiff(r, n)
                          \/ (OnsetDiff(r, r.note_id) = OnsetDiff(r, n) /\ r.note_id <= n)

\* Occurrences of pattern value v in piece p under the Configurations in sets
Occurrences(p, v, sets) ==
  {i \in DOMAIN melodic_ngrams :
     /\ melodic_ngrams[i].piece_id = p
     /\ melodic_ngrams[i].ngram = v
     /\ melodic_ngrams[i].melodic_ngram_set_id \in sets}

PairsGenerated == miner_run.ran /\ miner_run.reached # "start"

\* C3: in both piece-pair tables every record has piece A id strictly below piece B
\* id, and whenever a miner has generated its pair list, every two distinct pieces
\* a, b of the pieces table are in the list exactly once as (min, max) and never as
\* (max, min).
C3_CanonicalPairs ==
  /\ \A r \in piece_pair_values \cup piece_pair_value_sources :
       r.piece_a_id < r.piece_b_id
  /\ PairsGenerated =>
       \A a, b \in DOMAIN pieces :
         a < b =>
           /\ Cardinality({k \in DOMAIN miner_run.piece_pairs :
                             miner_run.piece_pairs[k] = <<a, b>>}) = 1
           /\ ~\E k \in DOMAIN miner_run.piece_pairs : miner_run.piece_pairs[k] = <<b, a>>

\* both tables hold records and the last run listed all three pairs of three pieces
C3_Witness ==
  /\ piece_pair_values # {}
  /\ piece_pair_value_sources # {}
  /\ PairsGenerated
  /\ Len(miner_run.piece_pairs) = 3

ValuesComputed ==
  miner_run.ran /\ miner_run.miner = "values" /\ miner_run.reached = "records"

SourcesComputed ==
  miner_run.ran /\ miner_run.miner = "sources" /\ miner_run.reached = "records"

SharedTriples ==
  {t \in (DOMAIN pieces) \X (DOMAIN pieces) \X NgramValues :
     /\ t[1] < t[2]
     /\ Occurrences(t[1], t[3], SetIds) # {}
     /\ Occurrences(t[2], t[3], SetIds) # {}}

SharedSourceKeys ==
  {t \in (DOMAIN pieces) \X (DOMAIN pieces) \X NgramValues
           \X (DOMAIN melodic_ngram_sets) \X (DOMAIN melodic_ngram_sets) :
     /\ t[1] < t[2]
     /\ Occurrences(t[1], t[3], {t[4]}) # {}
     /\ Occurrences(t[2], t[3], {t[5]}) # {}}

SourceKey(rec) ==
  <<rec.piece_a_id, rec.piece_b_id, rec.ngram_value, rec.set_a_id, rec.set_b_id>>

SameBase(sa, sb) ==
  /\ melodic_ngram_sets[sa].melodic_interval_set_id
       = melodic_ngram_sets[sb].melodic_interval_set_id
  /\ melodic_ngram_sets[sa].ngrams_number = melodic_ngram_sets[sb].ngrams_number

SourceRecords == piece_pair_value_sources \cup Inserted(miner_run.shared_records)

\* C6 as stated: the same-family flag of every Shared Pattern Source Record is true
\* exactly when its two Configurations share interval set and pattern length and
\* have different entry flags.
C6_FamilyDiffersInEntry ==
  SourcesComputed =>
    \A r \in SourceRecords :
      r.same_set_family
        = (/\ SameBase(r.set_a_id, r.set_b_id)
           /\ melodic_ngram_sets[r.set_a_id].ngrams_entry
                # melodic_ngram_sets[r.set_b_id].ngrams_entry)

\* C6 amended: the same-family flag of every Shared Pattern Source Record is true
\* exactly when its two Configurations share interval set and pattern length,
\* whatever their entry flags, so it is true whenever sa = sb.
C6_FamilySharesBase ==
  SourcesComputed =>
    \A r \in SourceRecords :
      /\ r.same_set_family = SameBase(r.set_a_id, r.set_b_id)
      /\ r.set_a_id = r.set_b_id => r.same_set_family

\* committed records of an entry Configuration paired with its parent (flag true),
\* of a Configuration paired with itself (flag true)
C6_Witness ==
  /\ SourcesComputed
  /\ \E r \in piece_pair_value_sources :
       /\ r.set_a_id # r.set_b_id
       /\ r.same_set_family
       /\ melodic_ngram_sets[r.set_a_id].ngrams_entry
            # melodic_ngram_sets[r.set_b_id].ngrams_entry
  /\ \E r \in piece_pair_value_sources : r.set_a_id = r.set_b_id /\ r.same_set_family

\* C7: after a miner entry point has returned success, the committed content of
\* its table is exactly the set of records it computed in that run from the
\* current source.
C7_FullRefresh ==
  (miner_run.ran /\ miner_run.returned) =>
    /\ miner_run.miner = "values" =>
         piece_pair_values = Inserted(miner_run.shared_records)
    /\ miner_run.miner = "sources" =>
         piece_pair_value_sources = Inserted(miner_run.shared_records)

IndexTables == <<melodic_ngram_values, melodic_ngram_value_sets>>

\* C8: a successful Index Builder run that follows a successful run, the source
\* being unchanged, leaves the global table and the breakdown table as they
\* were, value_id and the breakdown rows' reference to it included.
C8_RerunIdentical ==
  [][(index_run.returned /\ index_run'.returned /\ sourceVars' = sourceVars)
       => IndexTables' = IndexTables]_vars

\* the breakdown rows of pattern value v under Configuration c
BreakdownRows(v, c) ==
  {b \in melodic_ngram_value_sets :
     /\ b.melodic_ngram_set_id = c
     /\ \E g \in melodic_ngram_values : g.value_id = b.value_id /\ g.ngram_value = v}

\* occurrences of v under c, whatever the piece
OccurrencesUnder(v, c) ==
  UNION {Occurrences(p, v, {c}) : p \in DOMAIN pieces}

C10_StrictlyAscending ==
  \A g \in melodic_ngram_values :
    \A i, j \in DOMAIN g.note_ids : i < j => g.note_ids[i] < g.note_ids[j]

(***************************************************************************)
(* Reconciler: what a run may write                                        *)
(***************************************************************************)
NullRows(rows) == {i \in DOMAIN rows : rows[i].note_id = NULL}

InScope(r, piece_id) == piece_id = NoPiece \/ r.piece_id = piece_id

\* C11: a reconciler run with tolerance eps sets a row's note reference only to a
\* note of the same piece and voice whose onset differs from the row's by at most
\* eps, the boundary included, and a row without such a note keeps its null
\* reference.
C11_WithinTolerance ==
  [][\A i \in DOMAIN melodic_ngrams :
       LET r == melodic_ngrams[i]
           n == melodic_ngrams'[i].note_id
           near == Candidates(r, last_run'.tolerance)
       IN  /\ n # r.note_id => n \in near
           /\ (r.note_id = NULL /\ near = {}) => n = NULL]_vars

\* the last run resolved a row to a note exactly eps away and left a row of its
\* scope, which has no note within eps, null
C11_Witness ==
  /\ last_run.ran
  /\ last_run.tolerance > 0
  /\ \E i \in last_run.updated :
       OnsetDiff(melodic_ngrams[i], melodic_ngrams[i].note_id) = last_run.tolerance
  /\ \E j \in NullRows(melodic_ngrams) :
       /\ InScope(melodic_ngrams[j], last_run.piece_id)
       /\ Candidates(melodic_ngrams[j], last_run.tolerance) = {}

\* C12: no reconciler run changes a note reference that was non-null before it.
C12_NeverOverwritten ==
  [][\A i \in DOMAIN melodic_ngrams :
       melodic_ngrams[i].note_id # NULL =>
         melodic_ngrams'[i].note_id = melodic_ngrams[i].note_id]_vars

\* the last run resolved rows while a row of its scope, resolved by an earlier
\* run, had two notes within the tolerance to choose from
C12_Witness ==
  /\ last_run.ran
  /\ last_run.updated # {}
  /\ \E i \in (DOMAIN melodic_ngrams) \ last_run.updated :
       /\ melodic_ngrams[i].note_id # NULL
       /\ InScope(melodic_ngrams[i], last_run.piece_id)
       /\ Cardinality(Candidates(melodic_ngrams[i], last_run.tolerance)) = 2

\* C13: a run that repeats the tolerance and the piece scope of the run before it,
\* the notes being the same, updates zero rows and leaves every note reference as
\* the first run left it.
C13_SecondRunNoOp ==
  [][(last_run.ran /\ last_run'.ran /\ notes' = notes
        /\ last_run'.piece_id = last_run.piece_id
        /\ last_run'.tolerance = last_run.tolerance)
       => /\ last_run'.returned = 0
          /\ last_run'.updated = {}
          /\ melodic_ngrams' = melodic_ngrams]_vars

\* the repeated run found rows still to update in its scope, next to rows the
\* first run had resolved
C13_Witness ==
  /\ last_run.ran
  /\ last_run.rerun
  /\ last_run.strategy # "none"
  /\ \E i \in DOMAIN melodic_ngrams :
       /\ melodic_ngrams[i].note_id # NULL
       /\ InScope(melodic_ngrams[i], last_run.piece_id)

\* C14: the number of rows with a null note reference after a run is at most the
\* number before it.
C14_NullCountMonotone ==
  [][Cardinality(NullRows(melodic_ngrams')) <= Cardinality(NullRows(melodic_ngrams))]_vars

\* the last run resolved a row, an earlier one had resolved another
C14_Witness ==
  /\ last_run.ran
  /\ last_run.updated # {}
  /\ \E i \in (DOMAIN melodic_ngrams) \ last_run.updated : melodic_ngrams[i].note_id # NULL

\* C15: after a batched run has crashed behind k completed batches, the rows those
\* batches resolved are still resolved in the table.
C15_CompletedBatchesSurvive ==
  (last_run.ran /\ last_run.crashed) =>
    \A i \in last_run.updated : melodic_ngrams[i].note_id # NULL

\* C16: whenever a run ends with a row of its scope still unmatched, it has
\* reported the number of those rows with sample rows among them, whatever the
\* strategy.
C16_ResidualReported ==
  last_run.ran =>
    LET left == {i \in NullRows(melodic_ngrams) :
                   InScope(melodic_ngrams[i], last_run.piece_id)}
    IN  left # {} =>
          /\ last_run.report.printed
          /\ last_run.report.remaining = Cardinality(left)
          /\ last_run.report.examples # {}
          /\ last_run.report.examples \subseteq left

(***************************************************************************)
(* Cache: misses, existence checks and interrupted puts                    *)
(***************************************************************************)
\* C17: a load_stage_cache call for a key that was never put returns None and
\* changes neither the directory tree nor the index.
C17_MissReturnsNone ==
  [][(loaded'.valid /\ ~lastPut[loaded'.key].put)
       => /\ loaded'.result = None
          /\ fs' = fs
          /\ index' = index
          /\ index_file' = index_file]_vars

\* a miss on one key while the tree and the index hold an entry of another key
C17_Witness ==
  /\ loaded.valid
  /\ ~lastPut[loaded.key].put
  /\ loaded.result = None
  /\ \E k \in CacheKeys : lastPut[k].put /\ fs[PieceDir(k)].exists
  /\ index # FreshIndex

\* the key a has_stage_cache call names, when its set identifier is a slug
CheckedKey ==
  [stage |-> checked.stage, fmt |-> checked.fmt, set_slug |-> checked.set_id,
   piece_key |-> checked.piece_key]

\* C18: after a completed save_stage_cache, has_stage_cache with the same stage,
\* format, set identifier and piece key and with the stored artifact names
\* returns true.
C18_HasAfterPut ==
  (/\ checked.valid
   /\ CheckedKey \in CacheKeys
   /\ lastPut[CheckedKey].put
   /\ checked.required_files = DOMAIN lastPut[CheckedKey].data_dict)
    => checked.result = TRUE

\* the directory a has_stage_cache call addressed
CheckedDir == HasDir(checked.stage, checked.fmt, checked.set_id, checked.piece_key)

MissingFrom(path, names, file_format) ==
  {n \in names : ~(PathExists(path) /\ FileName(n, file_format) \in DOMAIN fs[path].files)}

\* C19: has_stage_cache with required names returns false whenever a required
\* artifact is missing from the directory it addresses, as in the states an
\* interrupted put leaves behind.
C19_PartialIsMiss ==
  (checked.valid /\ MissingFrom(CheckedDir, checked.required_files, checked.fmt) # {})
    => checked.result = FALSE

\* a put of two artifacts was interrupted after the first; the check that asks
\* for both finds the directory with one of them and answers false
C19_Witness ==
  /\ put_call.crashed
  /\ DOMAIN put_call.data_dict = ArtifactNames
  /\ checked.valid
  /\ CheckedDir = PieceDir(put_call.k)
  /\ checked.required_files = ArtifactNames
  /\ PathExists(CheckedDir)
  /\ Cardinality(MissingFrom(CheckedDir, ArtifactNames, checked.fmt)) = 1
  /\ checked.result = FALSE

\* C20: a load_stage_cache call after an interrupted put on its key returns
\* absent (None, or the empty dict of a directory without files), the entry as it
\* was before the put, or the entry as the completed put would have left it.
C20_AllOrNothing ==
  (loaded.valid /\ put_call.crashed /\ loaded.key = put_call.k) =>
    LET k == put_call.k
        complete == WrittenDir(put_call.before, k, put_call.data_dict, put_call.metadata)
    IN  loaded.result \in {None, [present |-> TRUE, value |-> EmptyMap],
                           LoadedFrom(put_call.before, k.fmt),
                           LoadedFrom(complete, k.fmt)}

(***************************************************************************)
(* Index builder: global entries against their breakdown rows              *)
(***************************************************************************)
RECURSIVE SumOfOccurrences(_)
SumOfOccurrences(rows) ==
  IF rows = {} THEN 0
  ELSE LET b == CHOOSE x \in rows : TRUE
       IN  b.set_occurrences + SumOfOccurrences(rows \ {b})

BreakdownOf(g) == {b \in melodic_ngram_value_sets : b.value_id = g.value_id}

\* C29: after a successful Index Builder run, the total occurrence count of every
\* global entry is the sum of the occurrence counts of its breakdown rows, its
\* Configuration count is the number of its breakdown rows, and every breakdown
\* row refers to exactly one global entry and counts the occurrences of that
\* entry's pattern value under the row's Configuration.
C29_TotalsMatchBreakdown ==
  (index_run.ran /\ index_run.returned) =>
    /\ \A g \in melodic_ngram_values :
         /\ g.total_occurrences = SumOfOccurrences(BreakdownOf(g))
         /\ g.total_sets = Cardinality(BreakdownOf(g))
    /\ \A b \in melodic_ngram_value_sets :
         /\ Cardinality({g \in melodic_ngram_values : g.value_id = b.value_id}) = 1
         /\ \A g \in melodic_ngram_values :
              g.value_id = b.value_id =>
                b.set_occurrences =
                  Cardinality(OccurrencesUnder(g.ngram_value, b.melodic_ngram_set_id))

\* two pattern values in the index, one of them with two occurrences spread
\* over two Configurations
C29_Witness ==
  /\ index_run.ran /\ index_run.returned
  /\ Cardinality(melodic_ngram_values) = 2
  /\ \E g \in melodic_ngram_values :
       /\ g.total_occurrences = 2
       /\ Cardinality(BreakdownOf(g)) = 2

(***************************************************************************)
(* Miners: the collapsed result against the Configuration-aware one        *)
(***************************************************************************)
\* what the two miners compute from the source as it stands
CollapsedResult ==
  find_shared_values(get_piece_ngram_values(melodic_ngrams),
                     generate_piece_pairs(SortedSeq(DOMAIN pieces)), pieces)

SourcesResult ==
  find_shared_values_by_sets(get_piece_set_ngram_values(melodic_ngrams),
                             generate_piece_pairs(SortedSeq(DOMAIN pieces)),
                             pieces, melodic_ngram_sets)

\* neither computation ends in an exception
BothCompute ==
  /\ ~SetsInfoRaises(melodic_ngram_sets)
  /\ \A e \in CollapsedResult \cup SourcesResult : ~e.raises

ConfigurationsPresent ==
  \A i \in DOMAIN melodic_ngrams :
    melodic_ngrams[i].melodic_ngram_set_id \in DOMAIN melodic_ngram_sets

RecordsOf(result, a, b, v) ==
  {e \in result : e.rec.piece_a_id = a /\ e.rec.piece_b_id = b /\ e.rec.ngram_value = v}

RECURSIVE SumOfPairs(_)
SumOfPairs(records) ==
  IF records = {} THEN 0
  ELSE LET e == CHOOSE x \in records : TRUE
       IN  e.rec.pairs_count + SumOfPairs(records \ {e})

CompleteBuild(seq) ==
  LET global_rows == GlobalRows(RunsProcessed, seq.melodic_ngram_values)
  IN  <<global_rows,
        SetRows(RunsProcessed, value_id_map(global_rows), seq.melodic_ngram_value_sets)>>

FailsAfterClearing(w) ==
  /\ procs[w].kind = "index" /\ InWrite(procs[w])
  /\ \/ procs'[w].pc = "crashed"
     \/ procs'[w].pc = "returned" /\ ~procs'[w].returned

\* C21: every step of a rebuild leaves the two index tables, as a reader sees
\* them, as they were, or replaces both by the complete tables of the new build;
\* a rebuild that fails after its DELETEs leaves them as they were.
C21_ReaderSeesWholeBuild ==
  [][/\ IndexTables' # IndexTables => IndexTables' = CompleteBuild(sqlite_sequence)
     /\ \A w \in Procs : FailsAfterClearing(w) => IndexTables' = IndexTables]_vars

\* the second rebuild has failed after its DELETEs and the reader still has the
\* complete tables of the first
C21_Witness ==
  \E w \in Procs :
    /\ procs[w].kind = "index" /\ procs[w].cleared
    /\ procs[w].pc = "crashed" \/ (procs[w].pc = "returned" /\ ~procs[w].returned)
    /\ melodic_ngram_values # {}
    /\ IndexTables = CompleteBuild(NoSequence)

\* the run of process w has committed its refresh of the tables of this kind
CommittedRun(w, kind) ==
  procs[w].kind = kind /\ procs[w].pc = "returned" /\ procs[w].returned

\* C24: of two overlapping refreshes at most one is between its DELETE and its
\* commit, and a derived table that holds rows holds exactly the rows one
\* committed run wrote.
C24_RefreshesDoNotInterleave ==
  /\ Cardinality({w \in Procs : InWrite(procs[w])}) <= 1
  /\ IndexTables # <<{}, {}>> =>
       \E w \in Procs :
         /\ CommittedRun(w, "index")
         /\ IndexTables = <<procs[w].working.melodic_ngram_values,
                            procs[w].working.melodic_ngram_value_sets>>
  /\ piece_pair_values # {} =>
       \E w \in Procs :
         /\ CommittedRun(w, "values")
         /\ piece_pair_values = procs[w].working.piece_pair_values

\* one refresh is about to commit while the other run of the same populator has
\* read the source and has its DELETE still to execute
C24_Witness ==
  \E w, o \in Procs :
    /\ w # o
    /\ procs[w].kind = "index" /\ procs[w].pc = "sets"
    /\ procs[o].kind = "index" /\ procs[o].pc = "read"
    /\ procs[w].working.melodic_ngram_values # {}

\* the records a run of populate_piece_pair_values computes from the source as it
\* stands, and the committed table it leaves when it runs to its end from here
RerunRecords ==
  find_shared_values(get_piece_ngram_values(melodic_ngrams),
                     generate_piece_pairs(SortedSeq(DOMAIN pieces)), pieces)

RerunTable ==
  IF RerunRecords = {} \/ ViolatesPairValues(RerunRecords)
  THEN piece_pair_values
  ELSE Inserted(RerunRecords)

\* C22: once a run of the miner has been interrupted between connect_db and its
\* commit, the committed table is empty, or a rerun meets no uniqueness violation
\* and leaves exactly the records of the current source.
C22_InterruptedRunRerunnable ==
  \A w \in Procs :
    (procs[w].kind = "values" /\ procs[w].pc = "crashed") =>
      \/ piece_pair_values = {}
      \/ /\ ~ViolatesPairValues(RerunRecords)
         /\ RerunTable = Inserted(RerunRecords)

(***************************************************************************)
(* Note pair generator                                                     *)
(***************************************************************************)
NoteCount == Cardinality(DOMAIN notes)

\* C23: a generation over n notes leaves exactly n(n+1)/2 records, one for every
\* a <= b and none with a > b, and each record's same_piece, same_voice and
\* same_composer flag is set exactly when the two notes agree in piece id, voice
\* and composer.
C23_AllPairsWithFlags ==
  (pairs_run.ran /\ pairs_run.generated) =>
    /\ Cardinality(note_pairs) = (NoteCount * (NoteCount + 1)) \div 2
    /\ \A a, b \in DOMAIN notes :
         a <= b => \E r \in note_pairs : r.note_a_id = a /\ r.note_b_id = b
    /\ \A r \in note_pairs :
         /\ r.note_a_id \in DOMAIN notes /\ r.note_b_id \in DOMAIN notes
         /\ r.note_a_id <= r.note_b_id
         /\ r.same_piece = 1 <=>
              notes[r.note_a_id].piece_id = notes[r.note_b_id].piece_id
         /\ r.same_voice = 1 <=> notes[r.note_a_id].voice = notes[r.note_b_id].voice
         /\ r.same_composer = 1 <=>
              pieces[notes[r.note_a_id].piece_id].composer
                = pieces[notes[r.note_b_id].piece_id].composer
         /\ {r.same_piece, r.same_voice, r.same_composer} \subseteq {0, 1}

\* four notes, ten records, among them one of two pieces of one composer
C23_Witness ==
  /\ pairs_run.ran /\ pairs_run.generated
  /\ NoteCount = 4 /\ Cardinality(note_pairs) = 10
  /\ \E r \in note_pairs : r.same_composer = 1 /\ r.same_piece = 0 /\ r.same_voice = 0

(***************************************************************************)
(* Two cache managers                                                      *)
(***************************************************************************)
BothPut ==
  /\ \A w \in Procs : procs[w].constructed /\ procs[w].put
  /\ procs[1].loaded_from = procs[2].loaded_from
  /\ IndexKey(procs[1].key.stage, procs[1].key.set_slug, procs[1].key.piece_key)
       # IndexKey(procs[2].key.stage, procs[2].key.set_slug, procs[2].key.piece_key)

\* C25: once two managers that loaded the same index file have each put under
\* a key of their own, the index file holds the records of both keys.
C25_NoLostIndexUpdate ==
  BothPut =>
    \A w \in Procs :
      IndexKey(procs[w].key.stage, procs[w].key.set_slug, procs[w].key.piece_key)
        \in DOMAIN index_file.pieces

(***************************************************************************)
(* Clearing a stage and set                                                *)
(***************************************************************************)
\* C27: after clear_stage_set(stage, set) has returned True and before the next
\* put under that stage and set, load_stage_cache finds nothing for any piece key
\* of the stage and set in either format, and neither the manager's index nor
\* the index file holds a record of them.
C27_ClearedSetIsAbsent ==
  (cleared.valid /\ cleared.returned) =>
    /\ \A k \in CacheKeys :
         (k.stage = cleared.stage /\ k.set_slug = cleared.set_id /\ ~lastPut[k].put)
           => load_stage_cache(k) = None
    /\ \A k \in CacheKeys :
         (k.stage = cleared.stage /\ k.set_slug = cleared.set_id /\ ~lastPut[k].put)
           => /\ \A x \in DOMAIN index :
                   ~(index[x].stage = k.stage /\ index[x].set_id = k.set_slug
                       /\ index[x].piece_key = k.piece_key /\ k.fmt \in DOMAIN index[x].formats)
              /\ \A x \in DOMAIN index_file.pieces :
                   ~(index_file.pieces[x].stage = k.stage
                       /\ index_file.pieces[x].set_id = k.set_slug
                       /\ index_file.pieces[x].piece_key = k.piece_key
                       /\ k.fmt \in DOMAIN index_file.pieces[x].formats)

(***************************************************************************)
(* Note lookup                                                             *)
(***************************************************************************)
\* the notes a lookup at (piece_id, voice, onset) was made for: those with that
\* key, or with that key less the offset
LookedUpExactly ==
  {n \in DOMAIN notes :
     /\ notes[n].piece_id = lookup.piece_id /\ notes[n].voice = lookup.voice
     /\ notes[n].onset = lookup.onset}

LookedUpWithOffset ==
  {n \in DOMAIN notes :
     /\ notes[n].piece_id = lookup.piece_id /\ notes[n].voice = lookup.voice
     /\ notes[n].onset + LookupOffset = lookup.onset}

\* C26: a lookup at a note's piece, voice and onset, or at its onset plus 0.0005
\* with tolerance 0.001, returns that note's id, and the batch lookup maps each
\* note's key to that note's id.
C26_LookupFindsTheNote ==
  /\ (lookup.valid /\ lookup.call = "find_note_id") =>
       \A n \in LookedUpExactly \cup LookedUpWithOffset : lookup.result = n
  /\ (lookup.valid /\ lookup.call = "find_note_ids_batch") =>
       \A n \in DOMAIN notes :
         NoteKey(n) \in lookup.records =>
           /\ <<notes[n].piece_id, notes[n].voice, notes[n].onset>> \in DOMAIN lookup.result
           /\ lookup.result[<<notes[n].piece_id, notes[n].voice, notes[n].onset>>] = n
(***************************************************************************)
(* Two reconciler runs                                                     *)
(***************************************************************************)
\* C28: when two reconciler runs on the same analysis table interleave, a row's
\* note reference that is committed as non-null is never changed to a different
\* note by the other run.
C28_SetReferenceIsKept ==
  [][\A i \in DOMAIN melodic_ngrams :
       melodic_ngrams[i].note_id # NULL =>
         melodic_ngrams'[i].note_id = melodic_ngrams[i].note_id]_vars

====
